---------------------------- MODULE Spec2Model ----------------------------
(***************************************************************************)
(* Verification model of the fparkan archive core: the NRes container      *)
(* (parse, read, editor, atomic commit) and the RsLi container (parse,     *)
(* lookup, XOR / LZSS / LZSS+Huffman / Deflate decoding), and of the typed  *)
(* payloads built on them: meshes (msh-core), textures (texm), render      *)
(* meshes (render-core) and mission scenes (render-mission-demo).          *)
(*                                                                         *)
(* Byte strings are sequences of 0..255; the byte at Rust offset o is      *)
(* element o + 1.  Fallible functions return Ok(v) or Err(e).              *)
(***************************************************************************)
EXTENDS Integers, Sequences, FiniteSets, TLC

VARIABLES
    \* ---- NRes reader (Archive::open_bytes / read) ----
    input,        \* the byte string handed to Archive::open_bytes
    archive,      \* the opened Archive, [open |-> FALSE] before open
    open_res,     \* result tag of the last open
    last_read,    \* [done, id, res]: the last Archive::read call
    last_find,    \* [done, name, res]: the last Archive::find call
    \* ---- NRes editor (Archive::edit_path, Editor, write_atomic) ----
    disk,         \* the files: [target, tmp], each [exists, bytes]
    editor,       \* Editor: [source, entries]
    pc,           \* position of the editing process
    content,      \* the image commit hands to write_atomic
    before,       \* the target file when commit started
    expected,     \* the entries the edit calls describe: [name, kind, attr1..3, data]
    edits,        \* number of edit calls made
    edit_res,     \* result tag of the last edit call
    commit_res,   \* result tag of commit
    reopened,     \* result of re-opening the target after commit
    \* ---- RsLi library (Library::open_path, find, load, load_packed, unpack) ----
    rsli_file,    \* the bytes of the library file
    flate,        \* flate2's answers for the Deflate streams of the file
    options,      \* the OpenOptions of the caller
    library,      \* result of parse_library, Err("unopened") before
    packed_res,   \* [id, res]: the last load_packed call
    call,         \* [op, arg, res]: the last find / load / unpack call
    \* ---- LZSS+Huffman decoder (LzhDecoder) ----
    decoder,      \* [tree, symbols, cycle]: the tree after `symbols` updates
    \* ---- typed payloads ----
    msh_payload,  \* the bytes handed to parse_model_payload
    msh_model,    \* result of parse_model_payload, or the Model handed to render-core
    render_mesh,  \* [lod, group, res]: the last build_render_mesh call
    texm_payload, \* the bytes handed to parse_texm
    texture,      \* result of parse_texm
    \* ---- mission scene (load_scene_with_options) ----
    mission,      \* the mission's objects and what the game files hold for each
    scene         \* result of load_scene_with_options

nresOpenVars == <<input, archive, open_res, last_read, last_find>>

nresEditVars ==
    <<disk, editor, pc, content, before, expected, edits, edit_res, commit_res,
      reopened>>

rsliVars == <<rsli_file, flate, options, library, packed_res, call>>

assetVars ==
    <<decoder, msh_payload, msh_model, render_mesh, texm_payload, texture, mission, scene>>

vars == <<nresOpenVars, nresEditVars, rsliVars, assetVars>>

-----------------------------------------------------------------------------
(* Results *)

Ok(v) == [ok |-> TRUE, val |-> v]

Err(e) == [ok |-> FALSE, err |-> e]

-----------------------------------------------------------------------------
(* Little-endian integers and byte helpers *)


Zeros(n) == IF n <= 0 THEN <<>> ELSE [i \in 1..n |-> 0]

\* bytes[a..b) in Rust slice notation
Slice(bytes, a, b) == SubSeq(bytes, a + 1, b)

\* u32::to_le_bytes
to_le_bytes(v) ==
    << v % 256, (v \div 256) % 256, (v \div 65536) % 256, (v \div 16777216) % 256 >>

\* u32::from_le_bytes (the model only builds fields below 2^31)
from_le_bytes(b) == b[1] + 256 * b[2] + 65536 * b[3] + 16777216 * b[4]

\* i32::from_le_bytes
i32_from_le_bytes(b) ==
    b[1] + 256 * b[2] + 65536 * b[3]
      + 16777216 * (IF b[4] >= 128 THEN b[4] - 256 ELSE b[4])


-----------------------------------------------------------------------------
(* NRes names *)

NameFieldLen == 36

MaxNameLen == 35

RecordLen == 64

HeaderLen == 16

RECURSIVE nul_position(_, _)
\* raw.iter().position(|&b| b == 0).unwrap_or(raw.len()), scanning from i
nul_position(raw, i) ==
    IF i > Len(raw) THEN Len(raw)
    ELSE IF raw[i] = 0 THEN i - 1
    ELSE nul_position(raw, i + 1)

\* the whole field, NUL or not
entry_name_whole_field(raw) == raw

entry_name_bytes(raw) == SubSeq(raw, 1, nul_position(raw, 1))

\* bytes -> String, one char per byte; the model keeps the char codes
decode_name(name) == name

ascii_lower(value) == IF value >= 65 /\ value <= 90 THEN value + 32 ELSE value

RECURSIVE cmp_from(_, _, _)
cmp_from(a, b, idx) ==
    IF idx > (IF Len(a) < Len(b) THEN Len(a) ELSE Len(b))
    THEN (IF Len(a) < Len(b) THEN -1 ELSE IF Len(a) > Len(b) THEN 1 ELSE 0)
    ELSE LET left == ascii_lower(a[idx])
             right == ascii_lower(b[idx])
         IN IF left # right THEN (IF left < right THEN -1 ELSE 1)
            ELSE cmp_from(a, b, idx + 1)

\* Ordering as -1 (Less), 0 (Equal), 1 (Greater)
cmp_name_case_insensitive(a, b) == cmp_from(a, b, 1)

RECURSIVE str_as_bytes(_)
\* str::as_bytes: the UTF-8 encoding of a string given as its code points
\* (code points below 0x800 are enough for the names modelled)
str_as_bytes(name) ==
    IF name = <<>> THEN <<>>
    ELSE LET c == Head(name) IN
         (IF c < 128 THEN <<c>>
          ELSE <<192 + (c \div 64), 128 + (c % 64)>>) \o str_as_bytes(Tail(name))

encode_name_field(name) ==
    LET bytes == str_as_bytes(name) IN
    IF \E i \in 1..Len(bytes) : bytes[i] = 0 THEN Err("NameContainsNul")
    ELSE IF Len(bytes) > MaxNameLen THEN Err("NameTooLong")
    ELSE Ok(bytes \o Zeros(NameFieldLen - Len(bytes)))

-----------------------------------------------------------------------------
(* NRes parse *)

RECURSIVE parse_entries_unbounded(_, _, _, _, _)
\* a directory loop that takes every data range as it is declared
parse_entries_unbounded(bytes, directory_offset, entry_count, index, acc) ==
    IF index >= entry_count THEN Ok(acc)
    ELSE
      LET base == directory_offset + index * RecordLen IN
      IF base + 64 > Len(bytes) THEN Err("IntegerOverflow")
      ELSE
        LET name_raw == Slice(bytes, base + 20, base + 56) IN
        IF Len(entry_name_bytes(name_raw)) > MaxNameLen THEN Err("NameTooLong")
        ELSE parse_entries_unbounded(bytes, directory_offset, entry_count, index + 1,
               Append(acc,
                 [meta |-> [kind |-> from_le_bytes(Slice(bytes, base, base + 4)),
                            attr1 |-> from_le_bytes(Slice(bytes, base + 4, base + 8)),
                            attr2 |-> from_le_bytes(Slice(bytes, base + 8, base + 12)),
                            attr3 |-> from_le_bytes(Slice(bytes, base + 16, base + 20)),
                            name |-> decode_name(entry_name_bytes(name_raw)),
                            data_offset |-> from_le_bytes(Slice(bytes, base + 56, base + 60)),
                            data_size |-> from_le_bytes(Slice(bytes, base + 12, base + 16)),
                            sort_index |-> from_le_bytes(Slice(bytes, base + 60, base + 64))],
                  name_raw |-> name_raw]))

RECURSIVE parse_entries(_, _, _, _, _)
parse_entries(bytes, directory_offset, entry_count, index, acc) ==
    IF index >= entry_count THEN Ok(acc)
    ELSE
      LET base == directory_offset + index * RecordLen IN
      IF base + 56 > Len(bytes) THEN Err("IntegerOverflow")
      ELSE
        LET kind == from_le_bytes(Slice(bytes, base, base + 4))
            attr1 == from_le_bytes(Slice(bytes, base + 4, base + 8))
            attr2 == from_le_bytes(Slice(bytes, base + 8, base + 12))
            data_size == from_le_bytes(Slice(bytes, base + 12, base + 16))
            attr3 == from_le_bytes(Slice(bytes, base + 16, base + 20))
            name_raw == Slice(bytes, base + 20, base + 56)
            name_bytes == entry_name_bytes(name_raw)
        IN
        IF Len(name_bytes) > MaxNameLen THEN Err("NameTooLong")
        ELSE IF base + 64 > Len(bytes) THEN Err("IntegerOverflow")
        ELSE
          LET data_offset == from_le_bytes(Slice(bytes, base + 56, base + 60))
              sort_index == from_le_bytes(Slice(bytes, base + 60, base + 64))
              end == data_offset + data_size
          IN
          IF data_offset < HeaderLen \/ end > directory_offset
          THEN Err("EntryDataOutOfBounds")
          ELSE parse_entries(bytes, directory_offset, entry_count, index + 1,
                 Append(acc,
                   [meta |-> [kind |-> kind, attr1 |-> attr1, attr2 |-> attr2,
                              attr3 |-> attr3, name |-> decode_name(name_bytes),
                              data_offset |-> data_offset, data_size |-> data_size,
                              sort_index |-> sort_index],
                    name_raw |-> name_raw]))

RawName == <<82, 65, 87>>

\* parse_archive returns the entries (the directory offset it also returns is unused)
parse_archive(bytes, raw_mode) ==
    IF raw_mode
    THEN Ok(<< [meta |-> [kind |-> 0, attr1 |-> 0, attr2 |-> 0, attr3 |-> 0,
                          name |-> RawName, data_offset |-> 0,
                          data_size |-> Len(bytes), sort_index |-> 0],
                name_raw |-> RawName \o Zeros(NameFieldLen - 3)] >>)
    ELSE IF Len(bytes) < HeaderLen THEN Err("InvalidMagic")
    ELSE IF Slice(bytes, 0, 4) # <<78, 82, 101, 115>> THEN Err("InvalidMagic")
    ELSE IF from_le_bytes(Slice(bytes, 4, 8)) # 256 THEN Err("UnsupportedVersion")
    ELSE
      LET entry_count == i32_from_le_bytes(Slice(bytes, 8, 12))
          total_size == from_le_bytes(Slice(bytes, 12, 16))
          actual_size == Len(bytes)
      IN
      IF entry_count < 0 THEN Err("InvalidEntryCount")
      ELSE IF total_size # actual_size THEN Err("TotalSizeMismatch")
      ELSE
        LET directory_len == entry_count * RecordLen IN
        IF total_size < directory_len THEN Err("DirectoryOutOfBounds")
        ELSE
          LET directory_offset == total_size - directory_len IN
          IF directory_offset < HeaderLen \/ directory_offset + directory_len > actual_size
          THEN Err("DirectoryOutOfBounds")
          ELSE parse_entries(bytes, directory_offset, entry_count, 0, <<>>)

\* a range that takes the size for the end offset
checked_range_size_as_end(offset, size, bytes_len) ==
    IF offset + size > bytes_len THEN Err("IntegerOverflow")
    ELSE Ok([start |-> offset, end |-> size])

checked_range(offset, size, bytes_len) ==
    IF offset + size > bytes_len THEN Err("IntegerOverflow")
    ELSE Ok([start |-> offset, end |-> offset + size])

\* Archive::entry_range
entry_range(a, id) ==
    IF id >= Len(a.entries) THEN Err("EntryIdOutOfRange")
    ELSE checked_range(a.entries[id + 1].meta.data_offset,
                       a.entries[id + 1].meta.data_size, Len(a.bytes))

\* Archive::read
read(a, id) ==
    LET range == entry_range(a, id) IN
    IF range.ok THEN Ok(Slice(a.bytes, range.val.start, range.val.end))
    ELSE range

RECURSIVE Archive_find_search(_, _, _, _)
\* the while loop of Archive::find; Err("None") when it ends without a hit
Archive_find_search(a, query, low, high) ==
    IF low >= high THEN Err("None")
    ELSE
      LET mid == low + (high - low) \div 2
          target_idx == a.entries[mid + 1].meta.sort_index
      IN
      IF target_idx >= Len(a.entries) THEN Err("None")
      ELSE
        LET cmp == cmp_name_case_insensitive(
                     query, entry_name_bytes(a.entries[target_idx + 1].name_raw))
        IN IF cmp < 0 THEN Archive_find_search(a, query, low, mid)
           ELSE IF cmp > 0 THEN Archive_find_search(a, query, mid + 1, high)
           ELSE Ok(target_idx)

\* Archive::find; name is a string given as its code points
Archive_find(a, name) ==
    IF Len(a.entries) = 0 THEN Err("None")
    ELSE
      LET query == str_as_bytes(name)
          hit == IF a.raw_mode THEN Err("None")
                 ELSE Archive_find_search(a, query, 0, Len(a.entries))
          equal == {idx \in 0..(Len(a.entries) - 1) :
                      cmp_name_case_insensitive(
                        query, entry_name_bytes(a.entries[idx + 1].name_raw)) = 0}
      IN IF hit.ok THEN hit
         ELSE IF equal = {} THEN Err("None")
         ELSE Ok(CHOOSE idx \in equal : \A k \in equal : idx <= k)
-----------------------------------------------------------------------------
(* NRes on-disk images *)

\* one 64-byte directory record, fields in the order commit writes them
dir_record(kind, attr1, attr2, data_size, attr3, name_raw, data_offset, sort_index) ==
    to_le_bytes(kind) \o to_le_bytes(attr1) \o to_le_bytes(attr2)
      \o to_le_bytes(data_size) \o to_le_bytes(attr3) \o name_raw
      \o to_le_bytes(data_offset) \o to_le_bytes(sort_index)

RECURSIVE Flatten(_)
Flatten(seqs) == IF seqs = <<>> THEN <<>> ELSE Head(seqs) \o Flatten(Tail(seqs))

MagicNRes == <<78, 82, 101, 115>>

\* header fields as raw 4-byte groups, then the data region, then the directory
nres_image(magic, version, count_bytes, total_size, region, records) ==
    magic \o to_le_bytes(version) \o count_bytes \o to_le_bytes(total_size)
      \o region \o Flatten(records)

-----------------------------------------------------------------------------
(* Inputs of the reader specification *)

\* length of the data region of the reader inputs
RegionLen == 16

\* the data region: every byte differs, so that slices are told apart
Region == [i \in 1..RegionLen |-> 100 + i]

NameAlpha == <<97, 108, 112, 104, 97>>

\* a 36-byte name field without any NUL
NameNoNul == [i \in 1..NameFieldLen |-> 65]

OpenRecords ==
    { dir_record(1, 2, 3, size, 4, name, off, sort) :
        size \in {0, 8, 9},
        name \in {NameAlpha \o Zeros(NameFieldLen - 5), NameNoNul},
        off \in {8, HeaderLen, HeaderLen + 8},
        sort \in {0, 5} }

\* well-framed images with 0, 1 or 2 directory records
FramedInputs ==
    { nres_image(MagicNRes, 256, to_le_bytes(0), HeaderLen, <<>>, <<>>) }
    \cup { nres_image(MagicNRes, 256, to_le_bytes(1),
                      HeaderLen + RegionLen + RecordLen, Region, <<r>>) :
             r \in OpenRecords }
    \cup { nres_image(MagicNRes, 256, to_le_bytes(2),
                      HeaderLen + RegionLen + 2 * RecordLen, Region, <<r1, r2>>) :
             r1 \in OpenRecords, r2 \in OpenRecords }

GoodRecord == dir_record(1, 2, 3, 8, 4, NameAlpha \o Zeros(NameFieldLen - 5), HeaderLen, 0)

\* images with one header field wrong, truncated images, and an image whose
\* directory would start inside the header
BrokenInputs ==
    LET n == HeaderLen + RegionLen + RecordLen IN
    { nres_image(<<78, 82, 69, 115>>, 256, to_le_bytes(1), n, Region, <<GoodRecord>>),
      nres_image(MagicNRes, 257, to_le_bytes(1), n, Region, <<GoodRecord>>),
      nres_image(MagicNRes, 256, <<255, 255, 255, 255>>, n, Region, <<GoodRecord>>),
      nres_image(MagicNRes, 256, to_le_bytes(2), n, Region, <<GoodRecord>>),
      nres_image(MagicNRes, 256, to_le_bytes(1), n + 1, Region, <<GoodRecord>>),
      nres_image(MagicNRes, 256, to_le_bytes(1), HeaderLen + 8, SubSeq(Region, 1, 8), <<>>),
      nres_image(MagicNRes, 256, to_le_bytes(1), HeaderLen + 56, Zeros(56), <<>>),
      MagicNRes,
      <<>> }

\* images of three empty entries: names that sort in another order than they
\* are stored, names that differ in case only, equal names, a name with the
\* byte E9 and a name with the bytes C3 A9; every sort table over 0, 1, 2 and
\* a value out of range
FindInputs ==
    { nres_image(MagicNRes, 256, to_le_bytes(3), HeaderLen + 3 * RecordLen, <<>>,
                 [i \in 1..3 |->
                    dir_record(1, 2, 3, 0, 4, names[i] \o Zeros(NameFieldLen - Len(names[i])),
                               HeaderLen, sort[i])]) :
        names \in { <<<<90, 117, 108, 117>>, NameAlpha, <<66, 101, 116, 97>>>>,
                    <<NameAlpha, <<65, 76, 80, 72, 65>>, <<66, 101, 116, 97>>>>,
                    <<<<66>>, <<66>>, <<65>>>>,
                    <<<<233>>, <<195, 169>>, <<65>>>> },
        sort \in [1..3 -> {0, 1, 2, 7}] }

NresInputs == FramedInputs \cup BrokenInputs \cup FindInputs

-----------------------------------------------------------------------------
(* Idle values of the editor variables, for the specifications without it *)

Absent == [exists |-> FALSE, bytes |-> <<>>]

NoEditor == [source |-> <<>>, entries |-> <<>>]

NresEditIdle ==
    /\ disk = [target |-> Absent, tmp |-> Absent]
    /\ editor = NoEditor
    /\ pc = "unused"
    /\ content = <<>>
    /\ before = Absent
    /\ expected = <<>>
    /\ edits = 0
    /\ edit_res = "none"
    /\ commit_res = "none"
    /\ reopened = Err("none")

\* struct OpenOptions
OpenOptions(allow_ao_trailer, allow_deflate_eof_plus_one) ==
    [allow_ao_trailer |-> allow_ao_trailer,
     allow_deflate_eof_plus_one |-> allow_deflate_eof_plus_one]

NoInflate == [raw |-> Err("corrupt deflate stream"), zlib |-> Err("corrupt deflate stream")]

NoResource == [id |-> 0, res |-> Err("none")]

NoCall == [op |-> "none", arg |-> <<>>, res |-> Err("none")]

RsliIdle ==
    /\ rsli_file = <<>>
    /\ flate = NoInflate
    /\ options = OpenOptions(TRUE, TRUE)
    /\ library = Err("unused")
    /\ packed_res = NoResource
    /\ call = NoCall

-----------------------------------------------------------------------------
(* Reader specification: open a byte string, then read entries *)

NoArchive == [open |-> FALSE, bytes |-> <<>>, entries |-> <<>>, raw_mode |-> FALSE]

NoRead == [done |-> FALSE, id |-> 0, res |-> Err("none")]

AssetIdle ==
    /\ decoder = [tree |-> <<>>, symbols |-> 0, cycle |-> <<>>]
    /\ msh_payload = <<>>
    /\ msh_model = Err("unused")
    /\ render_mesh = [lod |-> 0, group |-> 0, res |-> Err("none")]
    /\ texm_payload = <<>>
    /\ texture = Err("unused")
    /\ mission = <<>>
    /\ scene = Err("unused")

NresOpenIdle ==
    /\ input = <<>>
    /\ archive = NoArchive
    /\ open_res = "unused"
    /\ last_read = NoRead
    /\ last_find = [done |-> FALSE, name |-> <<>>, res |-> Err("none")]

InitNresOpen ==
    /\ AssetIdle
    /\ input \in NresInputs
    /\ archive = NoArchive
    /\ open_res = "unopened"
    /\ last_read = NoRead
    /\ last_find = [done |-> FALSE, name |-> <<>>, res |-> Err("none")]
    /\ NresEditIdle
    /\ RsliIdle

\* Archive::open_bytes
open_bytes(bytes, raw_mode) ==
    LET parsed == parse_archive(bytes, raw_mode) IN
    IF parsed.ok
    THEN Ok([open |-> TRUE, bytes |-> bytes, entries |-> parsed.val,
             raw_mode |-> raw_mode])
    ELSE parsed

OpenBytes ==
    /\ open_res = "unopened"
    /\ \E raw_mode \in BOOLEAN :
         LET r == open_bytes(input, raw_mode) IN
         /\ archive' = (IF r.ok THEN r.val ELSE NoArchive)
         /\ open_res' = (IF r.ok THEN "ok" ELSE r.err)
    /\ UNCHANGED <<input, last_read, last_find, nresEditVars, rsliVars, assetVars>>

Read ==
    /\ archive.open
    /\ \E id \in 0..2 :
         last_read' = [done |-> TRUE, id |-> id, res |-> read(archive, id)]
    /\ UNCHANGED <<input, archive, open_res, last_find, nresEditVars, rsliVars, assetVars>>

\* Archive::find of each entry's name as the archive reports it, in lower and
\* in upper case, and of a name no entry has
ArchiveFind ==
    /\ archive.open
    /\ \E name \in UNION {{archive.entries[i].meta.name,
                           [k \in 1..Len(archive.entries[i].meta.name) |->
                              ascii_lower(archive.entries[i].meta.name[k])],
                           [k \in 1..Len(archive.entries[i].meta.name) |->
                              IF archive.entries[i].meta.name[k] \in 97..122
                              THEN archive.entries[i].meta.name[k] - 32
                              ELSE archive.entries[i].meta.name[k]]} :
                          i \in 1..Len(archive.entries)}
                     \cup {<<71, 97, 109, 109, 97>>} :
         last_find' = [done |-> TRUE, name |-> name, res |-> Archive_find(archive, name)]
    /\ UNCHANGED <<input, archive, open_res, last_read, nresEditVars, rsliVars, assetVars>>

NextNresOpen == OpenBytes \/ Read \/ ArchiveFind

SpecNresOpen == InitNresOpen /\ [][NextNresOpen]_vars

-----------------------------------------------------------------------------
(* C1: after a normal-mode open succeeds, read(id) for every id below the
   entry count succeeds and returns exactly the input bytes in
   [data_offset, data_offset + data_size) that the id-th directory record of
   the input declares. *)

\* the id-th directory record of the input, read straight from the image
DeclaredOffset(bytes, id) ==
    LET count == i32_from_le_bytes(Slice(bytes, 8, 12))
        base == Len(bytes) - (count - id) * RecordLen
    IN [data_offset |-> from_le_bytes(Slice(bytes, base + 56, base + 60)),
        data_size |-> from_le_bytes(Slice(bytes, base + 12, base + 16))]

C1_ReadReturnsDeclaredBytes ==
    (archive.open /\ ~archive.raw_mode /\ last_read.done
       /\ last_read.id < Len(archive.entries))
    => /\ last_read.res.ok
       /\ LET d == DeclaredOffset(input, last_read.id) IN
          last_read.res.val =
            [i \in 1..d.data_size |-> input[d.data_offset + i]]

C1_Witness ==
    /\ archive.open /\ ~archive.raw_mode
    /\ Len(archive.entries) = 2
    /\ last_read.done /\ last_read.id = 1
    /\ last_read.res.ok /\ Len(last_read.res.val) = 8

-----------------------------------------------------------------------------
(* NRes editor: Archive::edit_path, Editor::add/replace_data/remove/commit *)

Borrowed(range) == [borrowed |-> TRUE, range |-> range, vec |-> <<>>]

Modified(vec) == [borrowed |-> FALSE, range |-> [start |-> 0, end |-> 0], vec |-> vec]

\* EditableEntry::data_slice
data_slice(entry, source) ==
    IF entry.data.borrowed
    THEN Slice(source, entry.data.range.start, entry.data.range.end)
    ELSE entry.data.vec

RECURSIVE editable_entries(_, _, _, _)
\* the loop of Archive::edit_path
editable_entries(entries, bytes_len, i, acc) ==
    IF i > Len(entries) THEN Ok(acc)
    ELSE LET range == checked_range(entries[i].meta.data_offset,
                                    entries[i].meta.data_size, bytes_len) IN
         IF ~range.ok THEN range
         ELSE editable_entries(entries, bytes_len, i + 1,
                Append(acc, [meta |-> entries[i].meta,
                             name_raw |-> entries[i].name_raw,
                             data |-> Borrowed(range.val)]))

\* Archive::edit_path on a file; a missing file is the error of fs::read
edit_path(file) ==
    IF ~file.exists THEN Err("Io")
    ELSE LET parsed == parse_archive(file.bytes, FALSE) IN
         IF ~parsed.ok THEN parsed
         ELSE LET editable == editable_entries(parsed.val, Len(file.bytes), 1, <<>>) IN
              IF ~editable.ok THEN editable
              ELSE Ok([source |-> file.bytes, entries |-> editable.val])

\* Editor::add
add(ed, entry) ==
    LET name_raw == encode_name_field(entry.name) IN
    IF ~name_raw.ok THEN name_raw
    ELSE Ok([ed EXCEPT !.entries = Append(@,
               [meta |-> [kind |-> entry.kind, attr1 |-> entry.attr1,
                          attr2 |-> entry.attr2, attr3 |-> entry.attr3,
                          name |-> decode_name(entry_name_bytes(name_raw.val)),
                          data_offset |-> 0, data_size |-> Len(entry.data),
                          sort_index |-> 0],
                name_raw |-> name_raw.val,
                data |-> Modified(entry.data)])])

\* Editor::replace_data
replace_data(ed, id, data) ==
    IF id >= Len(ed.entries) THEN Err("EntryIdOutOfRange")
    ELSE Ok([ed EXCEPT !.entries[id + 1].meta.data_size = Len(data),
                       !.entries[id + 1].data = Modified(data)])

\* Vec::remove
vec_remove(v, idx) == SubSeq(v, 1, idx) \o SubSeq(v, idx + 2, Len(v))

\* Editor::remove
remove(ed, id) ==
    IF id >= Len(ed.entries) THEN Err("EntryIdOutOfRange")
    ELSE Ok([ed EXCEPT !.entries = vec_remove(@, id)])

RECURSIVE emit_data_unpadded(_, _, _, _)
\* the data loop without the padding
emit_data_unpadded(entries, source, i, st) ==
    IF i > Len(entries) THEN st
    ELSE LET data == data_slice(entries[i], source) IN
         emit_data_unpadded(entries, source, i + 1,
           [out |-> st.out \o data,
            entries |-> Append(st.entries,
              [entries[i] EXCEPT !.meta.data_offset = Len(st.out),
                                 !.meta.data_size = Len(data)])])

RECURSIVE emit_data(_, _, _, _)
\* the data loop of commit: st = [out, entries]
emit_data(entries, source, i, st) ==
    IF i > Len(entries) THEN st
    ELSE LET data == data_slice(entries[i], source)
             out1 == st.out \o data
         IN emit_data(entries, source, i + 1,
              [out |-> out1 \o Zeros((8 - (Len(out1) % 8)) % 8),
               entries |-> Append(st.entries,
                 [entries[i] EXCEPT !.meta.data_offset = Len(st.out),
                                    !.meta.data_size = Len(data)])])

RECURSIVE insert_sorted(_, _, _)
\* one step of a stable sort: idx goes after every index whose name is not greater
insert_sorted(sorted, idx, names) ==
    IF sorted = <<>> THEN <<idx>>
    ELSE IF cmp_name_case_insensitive(names[Head(sorted) + 1], names[idx + 1]) <= 0
         THEN <<Head(sorted)>> \o insert_sorted(Tail(sorted), idx, names)
         ELSE <<idx>> \o sorted

RECURSIVE sort_order_upto(_, _)
sort_order_upto(names, n) ==
    IF n = 0 THEN <<>>
    ELSE insert_sorted(sort_order_upto(names, n - 1), n - 1, names)

\* (0..len).collect() left as collected
sort_order_as_collected(names) == [i \in 1..Len(names) |-> i - 1]

\* (0..len).collect() sorted by sort_by with cmp_name_case_insensitive (stable)
sort_order(names) == sort_order_upto(names, Len(names))

\* the position of entry idx in the sorted sequence
sort_index_as_position(order, idx) ==
    CHOOSE k \in 0..(Len(order) - 1) : order[k + 1] = idx

\* the value commit stores in entry idx's sort_index
sort_index_of(order, idx) == order[idx + 1]

\* the image Editor::commit hands to write_atomic
commit_bytes(ed) ==
    LET st == emit_data(ed.entries, ed.source, 1,
                        [out |-> Zeros(HeaderLen), entries |-> <<>>])
        n == Len(st.entries)
        order == sort_order([i \in 1..n |-> entry_name_bytes(st.entries[i].name_raw)])
        directory ==
            Flatten([i \in 1..n |->
              dir_record(st.entries[i].meta.kind, st.entries[i].meta.attr1,
                         st.entries[i].meta.attr2, st.entries[i].meta.data_size,
                         st.entries[i].meta.attr3, st.entries[i].name_raw,
                         st.entries[i].meta.data_offset, sort_index_of(order, i - 1))])
        out == st.out \o directory
    IN MagicNRes \o to_le_bytes(256) \o to_le_bytes(n) \o to_le_bytes(Len(out))
         \o SubSeq(out, HeaderLen + 1, Len(out))

-----------------------------------------------------------------------------
(* write_atomic, one file operation at a time *)

\* number of temp-file names write_atomic tries
TempAttempts == 128

\* OpenOptions::create_new(true).open: a new empty temp file
create_new(d) == [d EXCEPT !.tmp = [exists |-> TRUE, bytes |-> <<>>]]

\* a write that goes to the target file itself
write_all_in_place(d, bytes) == [d EXCEPT !.target.bytes = bytes]

\* File::write_all on the temp file; on an error only a prefix was written
write_all(d, bytes) == [d EXCEPT !.tmp.bytes = bytes]

\* fs::rename(tmp_path, path): replaces the target in one step
rename(d) == [target |-> d.tmp, tmp |-> Absent]

\* fs::remove_file(path)
remove_file(d) == [d EXCEPT !.target = Absent]

-----------------------------------------------------------------------------
(* Fixture archives: build_nres_bytes of the test suite *)

RECURSIVE fixture_data(_, _, _)
\* the data loop of build_nres_bytes: st = [out, offsets]
fixture_data(entries, i, st) ==
    IF i > Len(entries) THEN st
    ELSE LET out1 == st.out \o entries[i].data
             padding == (8 - (Len(out1) % 8)) % 8
         IN fixture_data(entries, i + 1,
              [out |-> out1 \o Zeros(padding),
               offsets |-> Append(st.offsets, Len(st.out))])

build_nres_bytes(entries) ==
    LET st == fixture_data(entries, 1, [out |-> Zeros(16), offsets |-> <<>>])
        n == Len(entries)
        order == sort_order([i \in 1..n |-> str_as_bytes(entries[i].name)])
        directory ==
            Flatten([i \in 1..n |->
              dir_record(entries[i].kind, entries[i].attr1, entries[i].attr2,
                         Len(entries[i].data), entries[i].attr3,
                         str_as_bytes(entries[i].name)
                           \o Zeros(36 - Len(str_as_bytes(entries[i].name))),
                         st.offsets[i], order[i])])
        out == st.out \o directory
    IN MagicNRes \o to_le_bytes(256) \o to_le_bytes(n) \o to_le_bytes(Len(out))
         \o SubSeq(out, 17, Len(out))

SyntheticEntry(kind, attr1, attr2, attr3, name, data) ==
    [kind |-> kind, attr1 |-> attr1, attr2 |-> attr2, attr3 |-> attr3,
     name |-> name, data |-> data]

EntryZulu == SyntheticEntry(10, 1, 2, 3, <<90, 117, 108, 117>>, <<97, 97, 97, 97, 97>>)

EntryAlpha == SyntheticEntry(11, 4, 5, 6, NameAlpha, <<98, 98, 98, 98, 98, 98, 98, 98>>)

EntryBeta == SyntheticEntry(12, 7, 8, 9, <<66, 101, 116, 97>>, <<99, 99, 99, 99>>)

\* the target files of the editor specification, each with the entries it
\* holds; the last one parses but was not laid out by the format's writer: the
\* second entry's data lies before the first one's and overlaps it, the sort
\* values are not a sorted view
EditFiles ==
    { [image |-> build_nres_bytes(es), entries |-> es] :
        es \in { <<>>, <<EntryAlpha>>, <<EntryZulu, EntryAlpha>>,
                 <<EntryZulu, EntryAlpha, EntryBeta>> } }
    \cup { [image |->
               nres_image(MagicNRes, 256, to_le_bytes(2),
                          HeaderLen + RegionLen + 2 * RecordLen, Region,
                          << dir_record(1, 2, 3, 8, 4,
                                        NameAlpha \o Zeros(NameFieldLen - 5),
                                        HeaderLen + 8, 0),
                             dir_record(1, 2, 3, 9, 4,
                                        NameAlpha \o Zeros(NameFieldLen - 5),
                                        HeaderLen, 5) >>),
             entries |->
               << SyntheticEntry(1, 2, 3, 4, NameAlpha, SubSeq(Region, 9, 16)),
                  SyntheticEntry(1, 2, 3, 4, NameAlpha, SubSeq(Region, 1, 9)) >>] }

-----------------------------------------------------------------------------
(* Editor specification: edit a file, commit through write_atomic, re-open *)

\* largest number of edit calls before commit
MaxEdits == 3

\* the entries handed to add: the three of the commit test, U+00E9 (a name
\* outside ASCII), a name with a NUL and a name of 36 bytes
NewEntries ==
    { EntryZulu, EntryAlpha, EntryBeta,
      SyntheticEntry(13, 1, 1, 1, <<233>>, <<7>>),
      SyntheticEntry(14, 1, 1, 1, <<97, 0>>, <<7>>),
      SyntheticEntry(15, 1, 1, 1, NameNoNul, <<7>>) }

InitNresEdit ==
    /\ AssetIdle
    /\ NresOpenIdle
    /\ RsliIdle
    /\ \E f \in EditFiles :
         /\ disk = [target |-> [exists |-> TRUE, bytes |-> f.image], tmp |-> Absent]
         /\ expected = f.entries
    /\ editor = NoEditor
    /\ pc = "start"
    /\ content = <<>>
    /\ before = Absent
    /\ edits = 0
    /\ edit_res = "none"
    /\ commit_res = "none"
    /\ reopened = Err("none")

EditPath ==
    /\ pc = "start"
    /\ LET r == edit_path(disk.target) IN
       /\ editor' = (IF r.ok THEN r.val ELSE NoEditor)
       /\ edit_res' = (IF r.ok THEN "ok" ELSE r.err)
       /\ pc' = (IF r.ok THEN "editing" ELSE "failed")
    /\ UNCHANGED <<disk, content, before, expected, edits, commit_res, reopened,
                   nresOpenVars, rsliVars, assetVars>>

Add ==
    /\ pc = "editing" /\ edits < MaxEdits
    /\ \E entry \in NewEntries :
         LET r == add(editor, entry) IN
         /\ editor' = (IF r.ok THEN r.val ELSE editor)
         /\ edit_res' = (IF r.ok THEN "ok" ELSE r.err)
         /\ expected' = (IF r.ok THEN Append(expected, entry) ELSE expected)
    /\ edits' = edits + 1
    /\ UNCHANGED <<disk, pc, content, before, commit_res, reopened, nresOpenVars, rsliVars, assetVars>>

ReplaceData ==
    /\ pc = "editing" /\ edits < MaxEdits
    /\ \E id \in 0..3, data \in { <<>>, <<9, 9, 9>> } :
         LET r == replace_data(editor, id, data) IN
         /\ editor' = (IF r.ok THEN r.val ELSE editor)
         /\ edit_res' = (IF r.ok THEN "ok" ELSE r.err)
         /\ expected' = (IF r.ok THEN [expected EXCEPT ![id + 1].data = data]
                         ELSE expected)
    /\ edits' = edits + 1
    /\ UNCHANGED <<disk, pc, content, before, commit_res, reopened, nresOpenVars, rsliVars, assetVars>>

Remove ==
    /\ pc = "editing" /\ edits < MaxEdits
    /\ \E id \in 0..3 :
         LET r == remove(editor, id) IN
         /\ editor' = (IF r.ok THEN r.val ELSE editor)
         /\ edit_res' = (IF r.ok THEN "ok" ELSE r.err)
         /\ expected' = (IF r.ok THEN vec_remove(expected, id) ELSE expected)
    /\ edits' = edits + 1
    /\ UNCHANGED <<disk, pc, content, before, commit_res, reopened, nresOpenVars, rsliVars, assetVars>>

\* Editor::commit up to the call of write_atomic
Commit ==
    /\ pc = "editing"
    /\ content' = commit_bytes(editor)
    /\ before' = disk.target
    /\ pc' = "create_temp"
    /\ UNCHANGED <<disk, editor, expected, edits, edit_res, commit_res, reopened,
                   nresOpenVars, rsliVars, assetVars>>

\* the create_new loop: one of the attempts succeeds, or all of them fail
WaCreateTemp ==
    /\ pc = "create_temp"
    /\ \E attempt \in 0..TempAttempts :
         IF attempt < TempAttempts
         THEN /\ disk' = create_new(disk)
              /\ pc' = "write_all"
              /\ UNCHANGED commit_res
         ELSE /\ pc' = "done"
              /\ commit_res' = "Io"
              /\ UNCHANGED disk
    /\ UNCHANGED <<editor, content, before, expected, edits, edit_res, reopened,
                   nresOpenVars, rsliVars, assetVars>>

\* file.write_all(content)?: all of it, or an error after a prefix
WaWriteAll ==
    /\ pc = "write_all"
    /\ \E written \in {0, Len(content) \div 2, Len(content)} :
         /\ disk' = write_all(disk, SubSeq(content, 1, written))
         /\ IF written = Len(content)
            THEN pc' = "sync_all" /\ UNCHANGED commit_res
            ELSE pc' = "done" /\ commit_res' = "Io"
    /\ UNCHANGED <<editor, content, before, expected, edits, edit_res, reopened,
                   nresOpenVars, rsliVars, assetVars>>

\* file.sync_all()?, then flush (nothing to do for a File) and drop
WaSyncAll ==
    /\ pc = "sync_all"
    /\ \E ok \in BOOLEAN :
         IF ok THEN pc' = "rename" /\ UNCHANGED commit_res
         ELSE pc' = "done" /\ commit_res' = "Io"
    /\ UNCHANGED <<disk, editor, content, before, expected, edits, edit_res,
                   reopened, nresOpenVars, rsliVars, assetVars>>

\* fs::rename(tmp_path, path) and the match on its result
WaRename ==
    /\ pc = "rename"
    /\ \E ok \in BOOLEAN :
         IF ok
         THEN /\ disk' = rename(disk)
              /\ pc' = "done"
              /\ commit_res' = "ok"
         ELSE IF disk.target.exists
         THEN /\ pc' = "remove_target"
              /\ UNCHANGED <<disk, commit_res>>
         ELSE /\ disk' = [disk EXCEPT !.tmp = Absent]
              /\ pc' = "done"
              /\ commit_res' = "Io"
    /\ UNCHANGED <<editor, content, before, expected, edits, edit_res, reopened,
                   nresOpenVars, rsliVars, assetVars>>

\* fs::remove_file(path)?
WaRemoveTarget ==
    /\ pc = "remove_target"
    /\ \E ok \in BOOLEAN :
         IF ok
         THEN /\ disk' = remove_file(disk)
              /\ pc' = "rename_retry"
              /\ UNCHANGED commit_res
         ELSE /\ pc' = "done"
              /\ commit_res' = "Io"
              /\ UNCHANGED disk
    /\ UNCHANGED <<editor, content, before, expected, edits, edit_res, reopened,
                   nresOpenVars, rsliVars, assetVars>>

\* the second fs::rename(tmp_path, path)?
WaRenameRetry ==
    /\ pc = "rename_retry"
    /\ \E ok \in BOOLEAN :
         IF ok
         THEN /\ disk' = rename(disk)
              /\ commit_res' = "ok"
         ELSE /\ commit_res' = "Io"
              /\ UNCHANGED disk
    /\ pc' = "done"
    /\ UNCHANGED <<editor, content, before, expected, edits, edit_res, reopened,
                   nresOpenVars, rsliVars, assetVars>>

\* what a reader sees of entry id: its metadata and the result of read
entry_view(a, id) ==
    LET m == a.entries[id + 1].meta IN
    [name |-> m.name, kind |-> m.kind, attr1 |-> m.attr1, attr2 |-> m.attr2,
     attr3 |-> m.attr3, data |-> read(a, id)]

\* Archive::open_path on the target after commit, then read of every entry
Reopen ==
    /\ pc = "done" /\ commit_res = "ok"
    /\ LET a == open_bytes(disk.target.bytes, FALSE) IN
       reopened' = (IF a.ok
                    THEN Ok([i \in 1..Len(a.val.entries) |-> entry_view(a.val, i - 1)])
                    ELSE a)
    /\ pc' = "reopened"
    /\ UNCHANGED <<disk, editor, content, before, expected, edits, edit_res,
                   commit_res, nresOpenVars, rsliVars, assetVars>>

NextNresEdit ==
    \/ EditPath \/ Add \/ ReplaceData \/ Remove \/ Commit
    \/ WaCreateTemp \/ WaWriteAll \/ WaSyncAll \/ WaRename
    \/ WaRemoveTarget \/ WaRenameRetry \/ Reopen

SpecNresEdit == InitNresEdit /\ [][NextNresEdit]_vars

-----------------------------------------------------------------------------
(* Claims about the editor *)

\* C2: after successful add, replace_data and remove calls and a successful
\* commit, re-opening the target succeeds and yields exactly the entries the
\* calls describe, in editor order, each with the name, kind and attr words it
\* was parsed or added with and the data most recently set for it.
C2_ReopenYieldsEditedEntries ==
    pc = "reopened" =>
      /\ reopened.ok
      /\ Len(reopened.val) = Len(expected)
      /\ \A i \in 1..Len(expected) :
           reopened.val[i] =
             [name |-> expected[i].name, kind |-> expected[i].kind,
              attr1 |-> expected[i].attr1, attr2 |-> expected[i].attr2,
              attr3 |-> expected[i].attr3, data |-> Ok(expected[i].data)]

\* C3: for an archive in the layout of the format's writer (data in directory
\* order from offset 16, each padded with zero bytes to a multiple of 8, the
\* directory right after, the sort table the sorted view of the names), commit
\* without any edit call writes the archive back byte for byte.
C3_CommitWithoutEditsReproduces ==
    LET F == before.bytes
        parsed == parse_archive(F, FALSE)
        es == parsed.val
        n == Len(es)
        Align8(x) == ((x + 7) \div 8) * 8
        End(i) == es[i].meta.data_offset + es[i].meta.data_size
        Name(k) == entry_name_bytes(es[k + 1].name_raw)
        Sorted(i) == es[i].meta.sort_index
        genuine ==
          /\ parsed.ok
          /\ \A i \in 1..n :
               /\ es[i].meta.data_offset = (IF i = 1 THEN 16 ELSE Align8(End(i - 1)))
               /\ \A k \in (End(i) + 1)..Align8(End(i)) : F[k] = 0
               /\ Sorted(i) < n
          /\ Len(F) = (IF n = 0 THEN 16 ELSE Align8(End(n))) + 64 * n
          /\ \A i, j \in 1..n :
               i < j =>
                 LET c == cmp_name_case_insensitive(Name(Sorted(i)), Name(Sorted(j)))
                 IN c < 0 \/ (c = 0 /\ Sorted(i) < Sorted(j))
    IN (pc \in {"done", "reopened"} /\ commit_res = "ok" /\ edits = 0 /\ genuine)
         => (content = F /\ disk.target = before)

C3_Witness ==
    /\ pc = "done" /\ commit_res = "ok" /\ edits = 0
    /\ Len(editor.entries) = 3
    /\ disk.target = before

\* C4: from the start of commit on, whatever file operation fails, the target
\* file, if it exists, holds the complete archive it held before commit or the
\* complete new one.
C4_TargetOldOrNew ==
    (pc \in {"create_temp", "write_all", "sync_all", "rename", "remove_target",
             "rename_retry", "done", "reopened"})
      => (disk.target.exists => disk.target.bytes \in {before.bytes, content})

C4_Witness ==
    /\ pc = "done" /\ commit_res = "Io"
    /\ disk.tmp.exists /\ Len(disk.tmp.bytes) < Len(content)
    /\ content # before.bytes
    /\ disk.target = before

-----------------------------------------------------------------------------
(* RsLi codecs: XOR stream and LZSS (rsli/src/lib.rs) *)

RECURSIVE bit_xor(_, _)
\* the ^ operator on unsigned integers
bit_xor(a, b) ==
    IF a = 0 THEN b
    ELSE IF b = 0 THEN a
    ELSE ((a + b) % 2) + 2 * bit_xor(a \div 2, b \div 2)

RECURSIVE bit_or(_, _)
\* the | operator on unsigned integers
bit_or(a, b) ==
    IF a = 0 THEN b
    ELSE IF b = 0 THEN a
    ELSE (IF a % 2 = 1 \/ b % 2 = 1 THEN 1 ELSE 0) + 2 * bit_or(a \div 2, b \div 2)

\* XorState::new
XorState_new(key16) == [lo |-> key16 % 256, hi |-> (key16 \div 256) % 256]

\* XorState::decrypt_byte: the new state and the decrypted byte
decrypt_byte(state, encrypted) ==
    LET lo == bit_xor(state.hi, (state.lo * 2) % 256)
    IN [state |-> [lo |-> lo, hi |-> bit_xor(lo, state.hi \div 2)],
        byte |-> bit_xor(encrypted, lo)]

RECURSIVE xor_range(_, _, _)
\* decrypt_byte over data, from offset Len(st.out) up to hi - 1; st = [state, out]
xor_range(data, st, hi) ==
    IF hi <= Len(st.out) THEN st
    ELSE IF hi = Len(st.out) + 1
    THEN LET d == decrypt_byte(st.state, data[hi]) IN
         [state |-> d.state, out |-> Append(st.out, d.byte)]
    ELSE xor_range(data, xor_range(data, st, (Len(st.out) + hi) \div 2), hi)

xor_stream(data, key16) ==
    xor_range(data, [state |-> XorState_new(key16), out |-> <<>>], Len(data)).out

\* a reader that decrypts but leaves the XOR state where it was
read_byte_fixed_state(data, pos, state) ==
    IF pos >= Len(data) THEN Err("lzss-simple: unexpected EOF")
    ELSE IF state.ok
    THEN Ok([byte |-> decrypt_byte(state.val, data[pos + 1]).byte, state |-> state])
    ELSE Ok([byte |-> data[pos + 1], state |-> state])

\* the read_byte closure of lzss_decompress_simple: state is an Option<XorState>
read_byte(data, pos, state) ==
    IF pos >= Len(data) THEN Err("lzss-simple: unexpected EOF")
    ELSE IF state.ok
    THEN LET d == decrypt_byte(state.val, data[pos + 1]) IN
         Ok([byte |-> d.byte, state |-> Ok(d.state)])
    ELSE Ok([byte |-> data[pos + 1], state |-> state])

\* out.push(byte); ring[ring_pos] = byte; ring_pos = (ring_pos + 1) & 0x0FFF
ring_push(st, byte) ==
    [st EXCEPT !.out = Append(@, byte), !.ring[st.ring_pos] = byte,
               !.ring_pos = (@ + 1) % 4096]

RECURSIVE lzss_copy(_, _, _, _, _)
\* the copy loop of a back reference
lzss_copy(st, offset, step, length, expected_size) ==
    IF step >= length THEN st
    ELSE LET st1 == ring_push(st, st.ring[(offset + step) % 4096]) IN
         IF Len(st1.out) >= expected_size THEN st1
         ELSE lzss_copy(st1, offset, step + 1, length, expected_size)

RECURSIVE lzss_loop(_, _, _)
\* the while loop of lzss_decompress_simple
lzss_loop(data, expected_size, st) ==
    IF Len(st.out) >= expected_size THEN Ok(st.out)
    ELSE
      LET ctl == IF st.bits_left = 0 THEN read_byte(data, st.in_pos, st.xor_state)
                 ELSE Ok([byte |-> st.control, state |-> st.xor_state])
      IN
      IF ~ctl.ok THEN ctl
      ELSE
        LET in1 == IF st.bits_left = 0 THEN st.in_pos + 1 ELSE st.in_pos
            bits == IF st.bits_left = 0 THEN 8 ELSE st.bits_left
            control == ctl.val.byte
            low == read_byte(data, in1, ctl.val.state)
        IN
        IF ~low.ok THEN low
        ELSE IF control % 2 # 0
        THEN lzss_loop(data, expected_size,
               [ring_push(st, low.val.byte) EXCEPT
                  !.in_pos = in1 + 1, !.xor_state = low.val.state,
                  !.control = control \div 2, !.bits_left = bits - 1])
        ELSE
          LET high == read_byte(data, in1 + 1, low.val.state) IN
          IF ~high.ok THEN high
          ELSE
            LET offset == low.val.byte + (high.val.byte \div 16) * 256
                length == (high.val.byte % 16) + 3
            IN lzss_loop(data, expected_size,
                 [lzss_copy(st, offset, 0, length, expected_size) EXCEPT
                    !.in_pos = in1 + 2, !.xor_state = high.val.state,
                    !.control = control \div 2, !.bits_left = bits - 1])

\* lzss_decompress_simple: xor_key is an Option<u16>
lzss_decompress_simple(data, expected_size, xor_key) ==
    lzss_loop(data, expected_size,
      [ring |-> [i \in 0..4095 |-> 32], ring_pos |-> 4078, out |-> <<>>,
       in_pos |-> 0, control |-> 0, bits_left |-> 0,
       xor_state |-> IF xor_key.ok THEN Ok(XorState_new(xor_key.val)) ELSE xor_key])

-----------------------------------------------------------------------------
(* RsLi codecs: LZSS with adaptive Huffman (LzhDecoder, rsli/src/lib.rs) *)

LZH_N == 4096

LZH_F == 60

LZH_THRESHOLD == 2

LZH_N_CHAR == 256 - LZH_THRESHOLD + LZH_F

LZH_T == LZH_N_CHAR * 2 - 1

LZH_R == LZH_T - 1

LZH_MAX_FREQ == 32768

\* init_tables: d_code[i], the value its nested loops store at index i
d_code(i) ==
    IF i < 32 THEN 0
    ELSE IF i < 80 THEN 1 + (i - 32) \div 16
    ELSE IF i < 144 THEN 4 + (i - 80) \div 8
    ELSE IF i < 192 THEN 12 + (i - 144) \div 4
    ELSE IF i < 240 THEN 24 + (i - 192) \div 2
    ELSE 48 + (i - 240)

\* init_tables: d_len[i]
d_len(i) ==
    IF i < 32 THEN 3 ELSE IF i < 80 THEN 4 ELSE IF i < 144 THEN 5
    ELSE IF i < 192 THEN 6 ELSE IF i < 240 THEN 7 ELSE 8

RECURSIVE start_freq(_)
\* start_huff: freq[j] of a leaf and of the node above nodes i and i + 1
start_freq(j) ==
    IF j < LZH_N_CHAR THEN 1
    ELSE start_freq(2 * (j - LZH_N_CHAR)) + start_freq(2 * (j - LZH_N_CHAR) + 1)

\* start_huff: the three tables of the initial tree
start_huff ==
    [freq |-> [j \in 0..LZH_T |-> IF j = LZH_T THEN 65535 ELSE start_freq(j)],
     son |-> [j \in 0..LZH_R |->
                IF j < LZH_N_CHAR THEN j + LZH_T ELSE 2 * (j - LZH_N_CHAR)],
     parent |-> [i \in 0..(LZH_T + LZH_N_CHAR - 1) |->
                   IF i >= LZH_T THEN i - LZH_T
                   ELSE IF i = LZH_R THEN 0
                   ELSE LZH_N_CHAR + i \div 2]]

\* LzhDecoder::new
LzhDecoder_new(data) ==
    [freq |-> start_huff.freq, son |-> start_huff.son, parent |-> start_huff.parent,
     data |-> data, byte_pos |-> 0, bit_mask |-> 128,
     text |-> [i \in 0..(LZH_N - 1) |-> 32], ring_pos |-> LZH_N - LZH_F,
     out |-> <<>>]

\* a bit reader that takes the bits of a byte least significant first
read_bit_lsb_first(t) ==
    IF t.byte_pos >= Len(t.data) THEN [t |-> t, bit |-> 0]
    ELSE [bit |-> (t.data[t.byte_pos + 1] \div (128 \div t.bit_mask)) % 2,
          t |-> IF t.bit_mask = 1
                THEN [t EXCEPT !.bit_mask = 128, !.byte_pos = @ + 1]
                ELSE [t EXCEPT !.bit_mask = @ \div 2]]

\* BitReader::read_bit_or_zero: the decoder after the read, and the bit
read_bit_or_zero(t) ==
    IF t.byte_pos >= Len(t.data) THEN [t |-> t, bit |-> 0]
    ELSE [bit |-> (t.data[t.byte_pos + 1] \div t.bit_mask) % 2,
          t |-> IF t.bit_mask = 1
                THEN [t EXCEPT !.bit_mask = 128, !.byte_pos = @ + 1]
                ELSE [t EXCEPT !.bit_mask = @ \div 2]]

RECURSIVE read_bits_or_zero(_, _, _)
\* BitReader::read_bits_or_zero, value is the accumulator
read_bits_or_zero(t, bits, value) ==
    IF bits = 0 THEN [t |-> t, value |-> value]
    ELSE LET r == read_bit_or_zero(t) IN
         read_bits_or_zero(r.t, bits - 1, value * 2 + r.bit)

\* a search for swap_idx that stops at the first candidate
swap_index_nearest(freq, f, start) == start

\* the search for swap_idx in update: the first index from start on at which
\* the while loop stops
swap_index(freq, f, start) ==
    CHOOSE k \in start..LZH_T :
      /\ ~(k + 1 < LZH_T + 1 /\ f > freq[k + 1])
      /\ \A m \in start..(k - 1) : m + 1 < LZH_T + 1 /\ f > freq[m + 1]

RECURSIVE update_loop(_, _)
\* the loop of update, from node current up to the root
update_loop(t, current) ==
    LET f == IF t.freq[current] < 65535 THEN t.freq[current] + 1 ELSE 65535
        t1 == [t EXCEPT !.freq[current] = f]
        swaps == current + 1 < LZH_T + 1 /\ f > t1.freq[current + 1]
        swap_idx == swap_index(t1.freq, f, current + 1)
        left == t1.son[current]
        right == t1.son[swap_idx]
        parent1 == [t1.parent EXCEPT ![left] = swap_idx]
        parent2 == IF left < LZH_T THEN [parent1 EXCEPT ![left + 1] = swap_idx]
                   ELSE parent1
        parent3 == [parent2 EXCEPT ![right] = current]
        parent4 == IF right < LZH_T THEN [parent3 EXCEPT ![right + 1] = current]
                   ELSE parent3
        t2 == IF swaps
              THEN [t1 EXCEPT !.freq[current] = t1.freq[swap_idx],
                              !.freq[swap_idx] = f,
                              !.son[current] = right, !.son[swap_idx] = left,
                              !.parent = parent4]
              ELSE t1
        next == t2.parent[IF swaps THEN swap_idx ELSE current]
    IN IF next = 0 THEN t2 ELSE update_loop(t2, next)

RECURSIVE collect_leaves(_, _)
\* reconstruct, first loop, from i = st.i up to hi - 1: leaves to the front,
\* frequencies halved; st = [t, i, j]
collect_leaves(st, hi) ==
    IF hi <= st.i THEN st
    ELSE IF hi = st.i + 1
    THEN (IF st.t.son[st.i] >= LZH_T
          THEN [t |-> [st.t EXCEPT !.freq[st.j] = (st.t.freq[st.i] + 1) \div 2,
                                   !.son[st.j] = st.t.son[st.i]],
                i |-> st.i + 1, j |-> st.j + 1]
          ELSE [st EXCEPT !.i = @ + 1])
    ELSE collect_leaves(collect_leaves(st, (st.i + hi) \div 2), hi)

\* reconstruct: the search for insert_at, the first index down from current at
\* which the while loop stops
insert_position(freq, sum, current) ==
    CHOOSE k \in 0..current :
      /\ ~(k > 0 /\ sum < freq[k - 1])
      /\ \A m \in (k + 1)..current : m > 0 /\ sum < freq[m - 1]

RECURSIVE shift_up(_, _)
\* reconstruct: freq[m + 1] = freq[m] and son[m + 1] = son[m] for m from
\* st.end - 1 down to lo; st = [t, end]
shift_up(st, lo) ==
    IF st.end <= lo THEN st
    ELSE IF st.end = lo + 1
    THEN [t |-> [st.t EXCEPT !.freq[lo + 1] = st.t.freq[lo],
                             !.son[lo + 1] = st.t.son[lo]],
          end |-> lo]
    ELSE shift_up(shift_up(st, (lo + st.end) \div 2), lo)

RECURSIVE build_internal(_, _)
\* reconstruct, second loop, from current = st.current up to hi - 1, with
\* i = 2 * (current - N_CHAR): internal nodes inserted in frequency order
build_internal(st, hi) ==
    IF hi <= st.current THEN st
    ELSE IF hi = st.current + 1
    THEN LET i == 2 * (st.current - LZH_N_CHAR)
             s1 == st.t.freq[i] + st.t.freq[i + 1]
             sum == IF s1 > 65535 THEN 65535 ELSE s1
             t1 == [st.t EXCEPT !.freq[st.current] = sum]
             insert_at == insert_position(t1.freq, sum, st.current)
         IN [t |-> [shift_up([t |-> t1, end |-> st.current], insert_at).t
                      EXCEPT !.freq[insert_at] = sum, !.son[insert_at] = i],
             current |-> st.current + 1]
    ELSE build_internal(build_internal(st, (st.current + hi) \div 2), hi)

RECURSIVE link_parents(_, _)
\* reconstruct, third loop, from idx = st.idx up to hi - 1
link_parents(st, hi) ==
    IF hi <= st.idx THEN st
    ELSE IF hi = st.idx + 1
    THEN LET node == st.t.son[st.idx]
             parent1 == [st.t.parent EXCEPT ![node] = st.idx]
         IN [t |-> [st.t EXCEPT !.parent = IF node < LZH_T
                                           THEN [parent1 EXCEPT ![node + 1] = st.idx]
                                           ELSE parent1],
             idx |-> st.idx + 1]
    ELSE link_parents(link_parents(st, (st.idx + hi) \div 2), hi)

\* LzhDecoder::reconstruct
reconstruct(t) ==
    LET leaves == collect_leaves([t |-> t, i |-> 0, j |-> 0], LZH_T).t
        nodes == build_internal([t |-> leaves, current |-> LZH_N_CHAR], LZH_T).t
        tree == link_parents([t |-> nodes, idx |-> 0], LZH_T).t
    IN [tree EXCEPT !.freq[LZH_T] = 65535, !.parent[LZH_R] = 0]

\* LzhDecoder::update
update(t, c) ==
    LET t1 == IF t.freq[LZH_R] = LZH_MAX_FREQ THEN reconstruct(t) ELSE t
    IN update_loop(t1, t1.parent[c + LZH_T])

RECURSIVE descend(_, _)
\* decode_char: the walk from the root to a leaf
descend(t, node) ==
    IF node >= LZH_T THEN [t |-> t, node |-> node]
    ELSE LET r == read_bit_or_zero(t) IN descend(r.t, r.t.son[node + r.bit])

\* LzhDecoder::decode_char: the decoder after it, and the symbol
decode_char(t) ==
    LET d == descend(t, t.son[LZH_R]) IN
    [t |-> update(d.t, d.node - LZH_T), c |-> d.node - LZH_T]

RECURSIVE position_bits(_, _, _)
\* decode_position: the loop that ors the extra bits into c
position_bits(t, j, c) ==
    IF j = 0 THEN [t |-> t, c |-> c]
    ELSE LET r == read_bit_or_zero(t) IN
         position_bits(r.t, j - 1, bit_or(c, r.bit * (2 ^ (j - 1))))

\* LzhDecoder::decode_position
decode_position(t) ==
    LET i == read_bits_or_zero(t, 8, 0)
        p == position_bits(i.t, d_len(i.value) - 2, d_code(i.value) * 64)
    IN [t |-> p.t, offset |-> bit_or(p.c, i.value % 64)]

\* out.push(byte); text[ring_pos] = byte; ring_pos = (ring_pos + 1) & (LZH_N - 1)
text_push(t, byte) ==
    [t EXCEPT !.out = Append(@, byte), !.text[t.ring_pos] = byte,
              !.ring_pos = (@ + 1) % LZH_N]

RECURSIVE lzh_copy(_, _, _, _)
\* the copy loop of LzhDecoder::decode
lzh_copy(t, offset, length, expected_size) ==
    IF length > 0 /\ Len(t.out) < expected_size
    THEN lzh_copy(text_push(t, t.text[offset]), (offset + 1) % LZH_N, length - 1,
                  expected_size)
    ELSE t

RECURSIVE lzh_decode(_, _)
\* LzhDecoder::decode
lzh_decode(t, expected_size) ==
    IF Len(t.out) >= expected_size
    THEN (IF Len(t.out) # expected_size THEN Err("lzss-huffman") ELSE Ok(t.out))
    ELSE LET d == decode_char(t) IN
         IF d.c < 256 THEN lzh_decode(text_push(d.t, d.c), expected_size)
         ELSE LET p == decode_position(d.t) IN
              lzh_decode(lzh_copy(p.t, (p.t.ring_pos + 2 * LZH_N - p.offset - 1) % LZH_N,
                                  d.c - 253, expected_size),
                         expected_size)

\* lzss_huffman_decompress: xor_key is an Option<u16>
lzss_huffman_decompress(data, expected_size, xor_key) ==
    lzh_decode(LzhDecoder_new(IF xor_key.ok THEN xor_stream(data, xor_key.val) ELSE data),
               expected_size)

-----------------------------------------------------------------------------
(* RsLi decode_payload *)

\* PackMethod values are named by their method bits
parse_method(raw) ==
    IF raw \in {0, 32, 64, 96, 128, 160, 256} THEN raw ELSE 1000 + raw

needs_xor_key(method) == method \in {32, 96, 160}

\* decode_deflate: raw and zlib are what flate2's DeflateDecoder and ZlibDecoder
\* return for the packed bytes
decode_deflate(raw, zlib) ==
    IF raw.ok THEN raw
    ELSE IF zlib.ok THEN zlib
    ELSE Err("DecompressionFailed")

\* decode_payload without its closing length check
unchecked_output(out, expected_size) == out

\* the closing length check of decode_payload
check_output_size(out, expected_size) ==
    IF ~out.ok THEN out
    ELSE IF Len(out.val) # expected_size THEN Err("OutputSizeMismatch")
    ELSE out

\* every method treated as Stored: the packed bytes are copied undecoded
decode_payload_stored(packed, method, key16, unpacked_size, inflated) ==
    IF Len(packed) < unpacked_size THEN Err("OutputSizeMismatch")
    ELSE Ok(SubSeq(packed, 1, unpacked_size))

\* decode_payload; inflated is the result of decode_deflate on packed
decode_payload(packed, method, key16, unpacked_size, inflated) ==
    check_output_size(
      CASE method = 0 ->
             IF Len(packed) < unpacked_size THEN Err("OutputSizeMismatch")
             ELSE Ok(SubSeq(packed, 1, unpacked_size))
        [] method = 32 ->
             IF Len(packed) < unpacked_size THEN Err("OutputSizeMismatch")
             ELSE Ok(xor_stream(SubSeq(packed, 1, unpacked_size), key16))
        [] method \in {64, 96} ->
             lzss_decompress_simple(packed, unpacked_size,
                                    IF method = 96 THEN Ok(key16) ELSE Err("None"))
        [] method \in {128, 160} ->
             lzss_huffman_decompress(packed, unpacked_size,
                                     IF method = 160 THEN Ok(key16) ELSE Err("None"))
        [] method = 256 -> inflated
        [] OTHER -> Err("UnsupportedMethod"),
      unpacked_size)

-----------------------------------------------------------------------------
(* Encoders of the test suite (rsli/src/tests.rs) *)

RECURSIVE lzss_pack_literals(_)
\* a mask byte, then up to 8 literals
lzss_pack_literals(data) ==
    IF data = <<>> THEN <<>>
    ELSE LET n == IF Len(data) < 8 THEN Len(data) ELSE 8 IN
         <<(2 ^ n) - 1>> \o SubSeq(data, 1, n)
           \o lzss_pack_literals(SubSeq(data, n + 1, Len(data)))

RECURSIVE find_path(_, _, _, _, _)
\* LzhLiteralModel::find_path: depth-first search from node for target
find_path(son, node, target, path, visited) ==
    IF node = target THEN [found |-> TRUE, path |-> path]
    ELSE IF node >= LZH_T \/ node \in visited THEN [found |-> FALSE, path |-> path]
    ELSE LET zero == find_path(son, son[node], target, Append(path, 0),
                               visited \cup {node})
         IN IF zero.found THEN zero
            ELSE find_path(son, son[node + 1], target, Append(path, 1),
                           visited \cup {node})

RECURSIVE encode_literals(_, _, _)
\* LzhLiteralModel::encode_literal for each byte from i on: the bits written
encode_literals(model, data, i) ==
    IF i > Len(data) THEN <<>>
    ELSE find_path(model.son, model.son[LZH_R], data[i] + LZH_T, <<>>, {}).path
           \o encode_literals(update(model, data[i]), data, i + 1)

RECURSIVE BitWriter_finish(_)
\* BitWriter: the bits packed most significant bit first, last byte zero filled
BitWriter_finish(bits) ==
    IF bits = <<>> THEN <<>>
    ELSE LET b == [k \in 1..8 |-> IF k <= Len(bits) THEN bits[k] ELSE 0] IN
         <<128 * b[1] + 64 * b[2] + 32 * b[3] + 16 * b[4]
             + 8 * b[5] + 4 * b[6] + 2 * b[7] + b[8]>>
           \o BitWriter_finish(SubSeq(bits, 9, Len(bits)))

lzh_pack_literals(data) == BitWriter_finish(encode_literals(start_huff, data, 1))

RECURSIVE adler32_from(_, _, _, _)
\* the Adler-32 sums a and b over data[k..]
adler32_from(data, k, a, b) ==
    IF k > Len(data) THEN <<b \div 256, b % 256, a \div 256, a % 256>>
    ELSE adler32_from(data, k + 1, (a + data[k]) % 65521,
                      (b + ((a + data[k]) % 65521)) % 65521)

\* the big-endian Adler-32 checksum that ends a zlib stream
adler32(data) == adler32_from(data, 1, 1, 0)

\* deflate_raw: one final stored block (RFC 1951, 3.2.4) holding data
deflate_raw(data) ==
    <<1, Len(data) % 256, Len(data) \div 256,
      255 - (Len(data) % 256), 255 - (Len(data) \div 256)>> \o data

\* deflate_zlib: the zlib header, the stream of deflate_raw and the checksum
deflate_zlib(data) == <<120, 1>> \o deflate_raw(data) \o adler32(data)

packed_for_method(method_raw, plain, key16) ==
    CASE method_raw = 0 -> plain
      [] method_raw = 32 -> xor_stream(plain, key16)
      [] method_raw = 64 -> lzss_pack_literals(plain)
      [] method_raw = 96 -> xor_stream(lzss_pack_literals(plain), key16)
      [] method_raw = 128 -> lzh_pack_literals(plain)
      [] method_raw = 160 -> xor_stream(lzh_pack_literals(plain), key16)
      [] method_raw = 256 -> deflate_raw(plain)
      [] OTHER -> plain

-----------------------------------------------------------------------------
(* RsLi library: parse_library, find, load, load_packed, unpack (rsli/src/lib.rs) *)

\* i16::from_le_bytes
i16_from_le_bytes(b) == b[1] + 256 * (IF b[2] >= 128 THEN b[2] - 256 ELSE b[2])

c_name_bytes(raw) == SubSeq(raw, 1, nul_position(raw, 1))

\* cmp_c_string: -1, 0, 1 for Less, Equal, Greater
cmp_c_string(a, b) ==
    LET min_len == IF Len(a) < Len(b) THEN Len(a) ELSE Len(b)
        diff == {i \in 1..min_len : a[i] # b[i]}
        first == CHOOSE i \in diff : \A k \in diff : i <= k
    IN IF diff # {} THEN (IF a[first] < b[first] THEN -1 ELSE 1)
       ELSE IF Len(a) < Len(b) THEN -1
       ELSE IF Len(a) > Len(b) THEN 1
       ELSE 0

\* the position of each entry in the sorted order, instead of the index found
\* at each position
positions_by_c_string(names) ==
    [i \in 1..Len(names) |->
       Cardinality({j \in 1..Len(names) :
                      LET c == cmp_c_string(names[j], names[i]) IN
                      c < 0 \/ (c = 0 /\ j < i)})]

\* (0..count).collect() after the stable sort_by with cmp_c_string over names:
\* position k holds the index that k other indices precede
sorted_by_c_string(names) ==
    LET n == Len(names)
        before_(j, i) ==
          LET c == cmp_c_string(names[j + 1], names[i + 1]) IN
          c < 0 \/ (c = 0 /\ j < i)
    IN [k \in 1..n |->
          CHOOSE i \in 0..(n - 1) :
            Cardinality({j \in 0..(n - 1) : before_(j, i)}) = k - 1]

\* the trailer read whatever the caller allows
parse_ao_trailer_always(bytes, allow) ==
    IF Len(bytes) < 6 THEN Ok(0)
    ELSE IF Slice(bytes, Len(bytes) - 6, Len(bytes) - 4) # <<65, 79>> THEN Ok(0)
    ELSE LET overlay == from_le_bytes(Slice(bytes, Len(bytes) - 4, Len(bytes))) IN
         IF overlay > Len(bytes) THEN Err("MediaOverlayOutOfBounds")
         ELSE Ok(overlay)

\* parse_ao_trailer: the overlay
parse_ao_trailer(bytes, allow) ==
    IF ~allow \/ Len(bytes) < 6 THEN Ok(0)
    ELSE IF Slice(bytes, Len(bytes) - 6, Len(bytes) - 4) # <<65, 79>> THEN Ok(0)
    ELSE LET overlay == from_le_bytes(Slice(bytes, Len(bytes) - 4, Len(bytes))) IN
         IF overlay > Len(bytes) THEN Err("MediaOverlayOutOfBounds")
         ELSE Ok(overlay)

\* a rejection that names the entry
ErrAt(e, id) == [ok |-> FALSE, err |-> e, id |-> id]

\* the quirk without the test of the method bits
packed_size_available_any_method(end, file_len, method_raw, packed_size_declared, opts, idx) ==
    IF end <= file_len THEN Ok(packed_size_declared)
    ELSE IF end = file_len + 1 /\ opts.allow_deflate_eof_plus_one
            /\ packed_size_declared >= 1
    THEN Ok(packed_size_declared - 1)
    ELSE ErrAt("PackedSizePastEof", idx)

\* the quirk rejected without the index of the entry
packed_size_available_no_id(end, file_len, method_raw, packed_size_declared, opts, idx) ==
    IF end <= file_len THEN Ok(packed_size_declared)
    ELSE IF method_raw = 256 /\ end = file_len + 1
    THEN (IF ~opts.allow_deflate_eof_plus_one
          THEN ErrAt("DeflateEofPlusOneQuirkRejected", 0)
          ELSE IF packed_size_declared >= 1 THEN Ok(packed_size_declared - 1)
          ELSE Err("IntegerOverflow"))
    ELSE ErrAt("PackedSizePastEof", idx)

\* the `if end > file_len_u64` block of parse_library's loop: the number of
\* packed bytes the file holds for the entry, or the rejection of the entry
packed_size_available_at(end, file_len, method_raw, packed_size_declared, opts, idx) ==
    IF end <= file_len THEN Ok(packed_size_declared)
    ELSE IF method_raw = 256 /\ end = file_len + 1
    THEN (IF ~opts.allow_deflate_eof_plus_one
          THEN ErrAt("DeflateEofPlusOneQuirkRejected", idx)
          ELSE IF packed_size_declared >= 1 THEN Ok(packed_size_declared - 1)
          ELSE Err("IntegerOverflow"))
    ELSE ErrAt("PackedSizePastEof", idx)

RECURSIVE parse_rows(_, _, _, _, _, _)
\* the loop of parse_library over the rows of the decrypted table
parse_rows(bytes, table, overlay, opts, idx, acc) ==
    IF idx * 32 >= Len(table) THEN Ok(acc)
    ELSE
      LET row == Slice(table, idx * 32, (idx + 1) * 32)
          name_raw == Slice(row, 0, 12)
          flags_signed == i16_from_le_bytes(Slice(row, 16, 18))
          sort_to_original == i16_from_le_bytes(Slice(row, 18, 20))
          unpacked_size == from_le_bytes(Slice(row, 20, 24))
          data_offset_raw == from_le_bytes(Slice(row, 24, 28))
          packed_size_declared == from_le_bytes(Slice(row, 28, 32))
          method_raw == ((((flags_signed + 65536) % 65536) \div 32) % 16) * 32
          effective_offset == data_offset_raw + overlay
          packed_size_available ==
            packed_size_available_at(effective_offset + packed_size_declared,
                                     Len(bytes), method_raw, packed_size_declared,
                                     opts, idx)
      IN
      IF ~packed_size_available.ok THEN packed_size_available
      ELSE IF effective_offset + packed_size_available.val > Len(bytes)
      THEN ErrAt("EntryDataOutOfBounds", idx)
      ELSE parse_rows(bytes, table, overlay, opts, idx + 1,
             Append(acc,
               [meta |-> [name |-> decode_name(c_name_bytes(name_raw)),
                          flags |-> flags_signed,
                          method |-> parse_method(method_raw),
                          data_offset |-> effective_offset,
                          packed_size |-> packed_size_declared,
                          unpacked_size |-> unpacked_size],
                name_raw |-> name_raw,
                sort_to_original |-> sort_to_original,
                key16 |-> (sort_to_original + 65536) % 65536,
                packed_size_declared |-> packed_size_declared,
                packed_size_available |-> packed_size_available.val,
                effective_offset |-> effective_offset]))

\* parse_library
parse_library(bytes, opts) ==
    IF Len(bytes) < 32 THEN Err("EntryTableOutOfBounds")
    ELSE IF Slice(bytes, 0, 2) # <<78, 76>> THEN Err("InvalidMagic")
    ELSE IF bytes[4] # 1 THEN Err("UnsupportedVersion")
    ELSE
      LET entry_count == i16_from_le_bytes(Slice(bytes, 4, 6))
          xor_seed_lo == bytes[21] + 256 * bytes[22]
          table_end == 32 + entry_count * 32
      IN
      IF entry_count < 0 THEN Err("InvalidEntryCount")
      ELSE IF table_end > Len(bytes) THEN Err("EntryTableOutOfBounds")
      ELSE
        LET table == xor_stream(Slice(bytes, 32, table_end), xor_seed_lo)
            overlay == parse_ao_trailer(bytes, opts.allow_ao_trailer)
            rows == parse_rows(bytes, table, overlay.val, opts, 0, <<>>)
            presorted_flag == bytes[15] + 256 * bytes[16]
            sorted == sorted_by_c_string(
                        [i \in 1..Len(rows.val) |-> c_name_bytes(rows.val[i].name_raw)])
            checked == IF presorted_flag = 43962
                       THEN (IF \E i \in 1..Len(rows.val) :
                                  \/ rows.val[i].sort_to_original < 0
                                  \/ rows.val[i].sort_to_original >= Len(rows.val)
                             THEN Err("CorruptEntryTable")
                             ELSE rows)
                       ELSE Ok([i \in 1..Len(rows.val) |->
                                  [rows.val[i] EXCEPT !.sort_to_original = sorted[i],
                                                      !.key16 = sorted[i]]])
        IN
        IF ~overlay.ok THEN overlay
        ELSE IF ~rows.ok THEN rows
        ELSE IF ~checked.ok THEN checked
        ELSE Ok([bytes |-> bytes, entries |-> checked.val])

\* a query taken as written
keep_case(value) == value

to_ascii_uppercase(value) == IF value >= 97 /\ value <= 122 THEN value - 32 ELSE value

RECURSIVE binary_search(_, _, _, _)
\* the while loop of find_impl; Err("None") when it leaves the loop without a hit
binary_search(entries, query_bytes, low, high) ==
    IF low >= high THEN Err("None")
    ELSE
      LET mid == low + (high - low) \div 2
          idx == entries[mid + 1].sort_to_original
      IN
      IF idx < 0 \/ idx >= Len(entries) THEN Err("None")
      ELSE
        LET cmp == cmp_c_string(query_bytes, c_name_bytes(entries[idx + 1].name_raw)) IN
        IF cmp < 0 THEN binary_search(entries, query_bytes, low, mid)
        ELSE IF cmp > 0 THEN binary_search(entries, query_bytes, mid + 1, high)
        ELSE Ok(idx)

\* find_impl: binary search, then the linear fallback
find_impl(lib, query_bytes) ==
    LET hit == binary_search(lib.entries, query_bytes, 0, Len(lib.entries))
        equal == {i \in 0..(Len(lib.entries) - 1) :
                    cmp_c_string(query_bytes, c_name_bytes(lib.entries[i + 1].name_raw)) = 0}
    IN IF hit.ok THEN hit
       ELSE IF equal = {} THEN Err("None")
       ELSE Ok(CHOOSE i \in equal : \A k \in equal : i <= k)

\* find: name is a string given as its code points; the fast path and the slow
\* path both upper-case the ASCII letters of the UTF-8 bytes of name
find(lib, name) ==
    IF Len(lib.entries) = 0 THEN Err("None")
    ELSE LET bytes == str_as_bytes(name) IN
         find_impl(lib, [i \in 1..Len(bytes) |-> to_ascii_uppercase(bytes[i])])

entry_by_id(lib, id) ==
    IF id < Len(lib.entries) THEN Ok(lib.entries[id + 1]) ELSE Err("EntryIdOutOfRange")

packed_slice(lib, entry) ==
    LET start == entry.effective_offset
        end == start + entry.packed_size_available
    IN IF start <= end /\ end <= Len(lib.bytes) THEN Ok(Slice(lib.bytes, start, end))
       ELSE Err("EntryDataOutOfBounds")

\* flate2's DeflateDecoder::read_to_end on packed: a stream that is one final
\* stored block (RFC 1951, 3.2.4) inflates to the block's payload; what any
\* other stream gives is the library's answer, passed in as other
inflate_raw(packed, other) ==
    IF /\ Len(packed) >= 5
       /\ packed[1] % 8 = 1
       /\ packed[2] + packed[4] = 255
       /\ packed[3] + packed[5] = 255
       /\ Len(packed) >= 5 + packed[2] + 256 * packed[3]
    THEN Ok(SubSeq(packed, 6, 5 + packed[2] + 256 * packed[3]))
    ELSE other

\* flate2's ZlibDecoder::read_to_end on a zlib stream that wraps one final
\* stored block; other is its answer for any other input
inflate_zlib(packed, other) ==
    IF /\ Len(packed) >= 6
       /\ packed[1] % 16 = 8
       /\ (packed[1] * 256 + packed[2]) % 31 = 0
       /\ (packed[2] \div 32) % 2 = 0
       /\ inflate_raw(SubSeq(packed, 3, Len(packed) - 4), Err("corrupt deflate stream")).ok
       /\ LET data == inflate_raw(SubSeq(packed, 3, Len(packed) - 4),
                                  Err("corrupt deflate stream")).val
          IN /\ Len(packed) = 11 + Len(data)
             /\ SubSeq(packed, Len(packed) - 3, Len(packed)) = adler32(data)
    THEN inflate_raw(SubSeq(packed, 3, Len(packed) - 4), Err("corrupt deflate stream"))
    ELSE other

\* load; fl holds flate2's answers for streams that are no stored block
load(lib, id, fl) ==
    LET entry == entry_by_id(lib, id)
        packed_ == packed_slice(lib, entry.val)
    IN IF ~entry.ok THEN entry
       ELSE IF ~packed_.ok THEN packed_
       ELSE decode_payload(packed_.val, entry.val.meta.method, entry.val.key16,
                           entry.val.meta.unpacked_size,
                           decode_deflate(inflate_raw(packed_.val, fl.raw),
                                          inflate_zlib(packed_.val, fl.zlib)))

load_packed(lib, id) ==
    LET entry == entry_by_id(lib, id)
        packed_ == packed_slice(lib, entry.val)
    IN IF ~entry.ok THEN entry
       ELSE IF ~packed_.ok THEN packed_
       ELSE Ok([meta |-> entry.val.meta, packed |-> packed_.val])

resolve_key_for_meta(lib, meta) ==
    LET same == {i \in 1..Len(lib.entries) : lib.entries[i].meta = meta} IN
    IF same = {} THEN Err("None")
    ELSE Ok(lib.entries[CHOOSE i \in same : \A k \in same : i <= k].key16)

unpack(lib, resource, fl) ==
    LET resolved == resolve_key_for_meta(lib, resource.meta)
        key16 == IF resolved.ok THEN resolved.val ELSE 0
        method == resource.meta.method
    IN IF needs_xor_key(method) /\ ~resolved.ok THEN Err("CorruptEntryTable")
       ELSE decode_payload(resource.packed, method, key16, resource.meta.unpacked_size,
                           decode_deflate(inflate_raw(resource.packed, fl.raw),
                                          inflate_zlib(resource.packed, fl.zlib)))

-----------------------------------------------------------------------------
(* RsLi images: build_rsli_bytes of the test suite *)

\* u16 / i16 to_le_bytes
to_le_bytes16(value) ==
    LET v == (value + 65536) % 65536 IN <<v % 256, v \div 256>>

\* the tail of build_rsli_bytes: header, encrypted table, data, optional trailer
rsli_image(rows, data, opts) ==
    <<78, 76, 0, 1>> \o to_le_bytes16(Len(rows)) \o Zeros(8)
      \o (IF opts.presorted THEN <<186, 171>> ELSE <<0, 0>>)
      \o Zeros(4) \o to_le_bytes(opts.seed) \o Zeros(8)
      \o xor_stream(Flatten([i \in 1..Len(rows) |->
                               rows[i].name_raw \o Zeros(4)
                                 \o to_le_bytes16(rows[i].flags)
                                 \o to_le_bytes16(rows[i].sort_field)
                                 \o to_le_bytes(rows[i].unpacked_size)
                                 \o to_le_bytes(rows[i].data_offset)
                                 \o to_le_bytes(rows[i].packed_size)]),
                    opts.seed % 65536)
      \o data
      \o (IF opts.add_ao_trailer THEN <<65, 79>> \o to_le_bytes(opts.overlay) ELSE <<>>)

RECURSIVE blob_offset(_, _)
\* the cursor before blob index (0-based), relative to the start of the data
blob_offset(blobs, index) ==
    IF index = 0 THEN 0 ELSE blob_offset(blobs, index - 1) + Len(blobs[index])

\* build_rsli_bytes
build_rsli_bytes(entries, opts) ==
    LET count == Len(entries)
        table_end == 32 + count * 32
        sort_lookup == sorted_by_c_string([i \in 1..count |-> entries[i].name])
        packed_blobs == [i \in 1..count |->
                           packed_for_method(entries[i].method_raw, entries[i].plain,
                                             sort_lookup[i])]
        rows == [i \in 1..count |->
                   [name_raw |-> [k \in 1..Len(entries[i].name) |->
                                    to_ascii_uppercase(entries[i].name[k])]
                                  \o Zeros(12 - Len(entries[i].name)),
                    flags |-> entries[i].method_raw,
                    sort_field |-> IF opts.presorted THEN sort_lookup[i] ELSE 0,
                    unpacked_size |-> Len(entries[i].plain),
                    data_offset |-> table_end + blob_offset(packed_blobs, i - 1),
                    packed_size |-> IF entries[i].declared_packed_size.ok
                                    THEN entries[i].declared_packed_size.val
                                    ELSE Len(packed_blobs[i])]]
    IN rsli_image(rows, Zeros(opts.overlay) \o Flatten(packed_blobs), opts)

-----------------------------------------------------------------------------
(* RsLi specification: open a library file, then find, load, load_packed, unpack *)

\* RsliBuildOptions::default() with the presorted flag given
BuildOptions(presorted) ==
    [seed |-> 305419896, presorted |-> presorted, overlay |-> 0, add_ao_trailer |-> FALSE]

SyntheticRsliEntry(name, method_raw, plain) ==
    [name |-> name, method_raw |-> method_raw, plain |-> plain,
     declared_packed_size |-> Err("None")]

Methods == {0, 32, 64, 96, 128, 160, 256}

\* "huffman l": long enough for a second LZSS mask byte
LongPayload == <<104, 117, 102, 102, 109, 97, 110, 32, 108>>

Payloads == {<<>>, <<65>>, LongPayload}

\* two entries packed with one method; entry 0 is decoded with key 1, entry 1 with key 0
CodecFiles ==
    {[bytes |-> build_rsli_bytes(<<SyntheticRsliEntry(<<66>>, m, x0),
                                   SyntheticRsliEntry(<<65>>, m, x1)>>,
                                 BuildOptions(presorted)),
      flate |-> {NoInflate},
      options |-> {OpenOptions(TRUE, TRUE)}] :
       m \in Methods, x0 \in Payloads, x1 \in Payloads, presorted \in BOOLEAN}

MaxPackedLen == 3

\* packed byte strings: every short string over three byte values, and stored
\* Deflate blocks, whole and cut short
PackedStreams ==
    UNION {[1..n -> {0, 1, 255}] : n \in 0..MaxPackedLen}
      \cup {deflate_raw(<<>>), deflate_raw(<<7>>), <<1, 1, 0, 254, 255>>}

DirectoryRow(name, flags, sort_field, unpacked_size, data_offset, packed_size) ==
    [name_raw |-> name \o Zeros(12 - Len(name)), flags |-> flags,
     sort_field |-> sort_field, unpacked_size |-> unpacked_size,
     data_offset |-> data_offset, packed_size |-> packed_size]

\* entry 0 (key 1) holds arbitrary packed bytes under every method, also an
\* unknown one; flate holds flate2's possible answers for a Deflate stream that
\* is no stored block
PackedFiles ==
    {[bytes |-> rsli_image(<<DirectoryRow(<<66>>, m, 0, u, 96, Len(p)),
                             DirectoryRow(<<65>>, 0, 0, 0, 96, 0)>>,
                           p, BuildOptions(FALSE)),
      flate |-> IF m = 256 /\ ~inflate_raw(p, Err("none")).ok
                THEN {[raw |-> r, zlib |-> z] :
                        r \in {Err("corrupt deflate stream"), Ok(<<>>), Ok(<<7>>)},
                        z \in {Err("corrupt deflate stream"), Ok(<<7, 7>>)}}
                ELSE {NoInflate},
      options |-> {OpenOptions(TRUE, TRUE)}] :
       m \in Methods \cup {192}, p \in PackedStreams, u \in {0, 1, 2, 4}}

\* every entry is XorOnly over the same three bytes
directory_file(names, presorted, sort_fields) ==
    [bytes |-> rsli_image([i \in 1..Len(names) |->
                             DirectoryRow(names[i], 32, sort_fields[i], 3,
                                          32 + 32 * Len(names), 3)],
                          <<1, 2, 3>>, BuildOptions(presorted)),
     flate |-> {NoInflate},
     options |-> {OpenOptions(TRUE, TRUE), OpenOptions(FALSE, FALSE)}]

\* directories without the presorted flag: names in several orders, with
\* repeats, a lower-case letter, a byte above 127 and a name that fills the
\* field; directories with the flag: every choice of sort_to_original values
\* from -1 to the entry count
DirectoryFiles ==
    {directory_file(names, FALSE, [i \in 1..Len(names) |-> 0]) :
       names \in {<<<<65>>, <<66>>, <<67>>>>, <<<<66>>, <<67>>, <<65>>>>,
                  <<<<67>>, <<65>>, <<66>>>>, <<<<65>>, <<66>>>>, <<<<66>>, <<65>>>>,
                  <<<<65>>, <<65>>>>, <<<<66>>, <<65>>, <<66>>>>, <<<<98>>, <<65>>>>,
                  <<<<233>>, <<65>>>>,
                  <<<<65, 66, 67, 68, 69, 70, 71, 72, 73, 74, 75, 76>>, <<65, 66>>>>,
                  <<>>}}
      \cup UNION {{directory_file(names, TRUE, sf) :
                     sf \in [1..Len(names) -> (-1)..Len(names)]} :
                  names \in {<<<<65>>, <<66>>>>, <<<<65>>, <<65>>>>,
                             <<<<66>>, <<67>>, <<65>>>>}}

\* one row whose flags, data_offset_raw and packed_size vary, first or second
\* in the directory, next to a stored row over one byte or over eight; the data
\* is a stored Deflate block of one byte (6 bytes), so without a trailer the
\* file ends at the block's end; a trailer, when present, declares an overlay
\* of 0, of 1 or of more than the file size; every combination of the two
\* options
QuirkFiles ==
    {[bytes |-> rsli_image(
                  IF first
                  THEN <<DirectoryRow(<<65>>, fl, 0, 1, off, ps),
                         DirectoryRow(<<66>>, 0, 0, other, 96, other)>>
                  ELSE <<DirectoryRow(<<65>>, 0, 0, other, 96, other),
                         DirectoryRow(<<66>>, fl, 0, 1, off, ps)>>,
                  deflate_raw(<<7>>),
                  [BuildOptions(FALSE) EXCEPT !.add_ao_trailer = (overlay >= 0),
                                              !.overlay = overlay]),
      flate |-> {NoInflate},
      options |-> {OpenOptions(a, d) : a \in BOOLEAN, d \in BOOLEAN}] :
       first \in BOOLEAN, fl \in {0, 256, 257, 288}, off \in {96, 97, 102},
       ps \in {0, 6, 7, 8}, other \in {1, 8}, overlay \in {-1, 0, 1, 200}}

\* the library files: the four families, and a file with an AO trailer and an
\* overlay of 3 bytes
\* entry 0 is a Deflate entry whose packed bytes are a zlib stream of two or
\* nine bytes, or a zlib stream with a wrong checksum
ZlibFiles ==
    {[bytes |-> rsli_image(<<DirectoryRow(<<66>>, 256, 0, u, 96, Len(p)),
                             DirectoryRow(<<65>>, 0, 0, 0, 96, 0)>>,
                           p, BuildOptions(presorted)),
      flate |-> {NoInflate},
      options |-> {OpenOptions(TRUE, TRUE), OpenOptions(FALSE, FALSE)}] :
       p \in {deflate_zlib(<<7, 7>>), deflate_zlib(LongPayload),
              [deflate_zlib(<<7, 7>>) EXCEPT ![13] = 0]},
       u \in {2, 9}, presorted \in BOOLEAN}

RsliFiles ==
    CodecFiles \cup PackedFiles \cup DirectoryFiles \cup QuirkFiles \cup ZlibFiles
      \cup {[bytes |-> build_rsli_bytes(<<SyntheticRsliEntry(<<66>>, 32, LongPayload),
                                          SyntheticRsliEntry(<<65>>, 0, <<65>>)>>,
                                        [BuildOptions(presorted) EXCEPT
                                           !.overlay = 3, !.add_ao_trailer = TRUE]),
             flate |-> {NoInflate},
             options |-> {OpenOptions(TRUE, TRUE), OpenOptions(FALSE, FALSE)}] :
           presorted \in BOOLEAN}

InitRsli ==
    /\ AssetIdle
    /\ NresOpenIdle
    /\ NresEditIdle
    /\ \E f \in RsliFiles :
         /\ rsli_file = f.bytes
         /\ flate \in f.flate
         /\ options \in f.options
    /\ library = Err("unopened")
    /\ packed_res = NoResource
    /\ call = NoCall

\* Library::open_path_with after fs::read
Open ==
    /\ library = Err("unopened")
    /\ library' = parse_library(rsli_file, options)
    /\ UNCHANGED <<rsli_file, flate, options, packed_res, call, nresOpenVars, nresEditVars, assetVars>>

\* find of each entry's name as stored, lower-cased and upper-cased, and of a
\* name no entry has
Find ==
    /\ library.ok
    /\ \E name \in UNION {{library.val.entries[i].meta.name,
                           [k \in 1..Len(library.val.entries[i].meta.name) |->
                              ascii_lower(library.val.entries[i].meta.name[k])],
                           [k \in 1..Len(library.val.entries[i].meta.name) |->
                              IF library.val.entries[i].meta.name[k] \in 97..122
                              THEN library.val.entries[i].meta.name[k] - 32
                              ELSE library.val.entries[i].meta.name[k]]} :
                          i \in 1..Len(library.val.entries)}
                     \cup {<<90>>} :
         call' = [op |-> "find", arg |-> name, res |-> find(library.val, name)]
    /\ UNCHANGED <<rsli_file, flate, options, library, packed_res, nresOpenVars, nresEditVars, assetVars>>

Load ==
    /\ library.ok
    /\ \E id \in 0..Len(library.val.entries) :
         call' = [op |-> "load", arg |-> id, res |-> load(library.val, id, flate)]
    /\ UNCHANGED <<rsli_file, flate, options, library, packed_res, nresOpenVars, nresEditVars, assetVars>>

LoadPacked ==
    /\ library.ok
    /\ \E id \in 0..Len(library.val.entries) :
         packed_res' = [id |-> id, res |-> load_packed(library.val, id)]
    /\ UNCHANGED <<rsli_file, flate, options, library, call, nresOpenVars, nresEditVars, assetVars>>

Unpack ==
    /\ library.ok
    /\ packed_res.res.ok
    /\ call' = [op |-> "unpack", arg |-> packed_res.id,
                res |-> unpack(library.val, packed_res.res.val, flate)]
    /\ UNCHANGED <<rsli_file, flate, options, library, packed_res, nresOpenVars, nresEditVars, assetVars>>

NextRsli == Open \/ Find \/ Load \/ LoadPacked \/ Unpack

SpecRsli == InitRsli /\ [][NextRsli]_vars

-----------------------------------------------------------------------------
(* RsLi claims *)

\* C5: for each of the seven methods and every payload x: when the packed bytes
\* of an entry are x encoded with the entry's method (and XOR-encrypted with the
\* entry's key for the XOR variants) and its unpacked_size is the length of x,
\* load of that entry returns exactly x.
C5_LoadReturnsEncodedPayload ==
    (call.op = "load" /\ library.ok /\ call.arg < Len(library.val.entries)) =>
      \A x \in Payloads :
        (/\ library.val.entries[call.arg + 1].meta.method \in Methods
         /\ library.val.entries[call.arg + 1].meta.unpacked_size = Len(x)
         /\ packed_slice(library.val, library.val.entries[call.arg + 1]).val
              = packed_for_method(library.val.entries[call.arg + 1].meta.method, x,
                                  library.val.entries[call.arg + 1].key16))
        => call.res = Ok(x)

\* an XOR + LZSS-Huffman entry with key 1 was loaded and gave the long payload
C5_Witness ==
    /\ call.op = "load"
    /\ library.ok
    /\ call.arg < Len(library.val.entries)
    /\ library.val.entries[call.arg + 1].meta.method = 160
    /\ library.val.entries[call.arg + 1].key16 = 1
    /\ packed_slice(library.val, library.val.entries[call.arg + 1]).val
         = packed_for_method(160, LongPayload, 1)
    /\ call.res = Ok(LongPayload)

\* C6: for every entry id of an opened library, unpack(load_packed(id)) returns
\* what load(id) returns, the same bytes or the same failure.
C6_UnpackEqualsLoad ==
    (call.op = "unpack" /\ library.ok) =>
      call.res = load(library.val, call.arg, flate)

\* C7: for every method and every packed byte sequence, load either returns a
\* buffer whose length is the entry's declared unpacked_size or fails.
C7_LoadLengthOrError ==
    (call.op = "load" /\ library.ok /\ call.res.ok) =>
      Len(call.res.val) = library.val.entries[call.arg + 1].meta.unpacked_size

\* a Deflate entry declared empty whose stream inflates to one byte: load fails
C7_Witness ==
    /\ call.op = "load"
    /\ library.ok
    /\ call.arg < Len(library.val.entries)
    /\ library.val.entries[call.arg + 1].meta.method = 256
    /\ library.val.entries[call.arg + 1].meta.unpacked_size = 0
    /\ flate.raw = Ok(<<7>>)
    /\ call.res = Err("OutputSizeMismatch")

\* C8 as stated: for every entry index i of an opened library, find of the
\* entry's name, written in any ASCII case, returns EntryId(i).
C8_FindReturnsIndex ==
    (call.op = "find" /\ library.ok) =>
      \A i \in 1..Len(library.val.entries) :
        (/\ Len(call.arg) = Len(library.val.entries[i].meta.name)
         /\ \A k \in 1..Len(call.arg) :
              ascii_lower(call.arg[k]) = ascii_lower(library.val.entries[i].meta.name[k]))
        => call.res = Ok(i - 1)

\* C8, amended: the same for every entry whose stored name is ASCII without
\* lower-case letters and is the name of no other entry.
C8_FindReturnsIndexOfUniqueUpperName ==
    (call.op = "find" /\ library.ok) =>
      \A i \in 1..Len(library.val.entries) :
        (/\ Len(call.arg) = Len(library.val.entries[i].meta.name)
         /\ \A k \in 1..Len(call.arg) :
              ascii_lower(call.arg[k]) = ascii_lower(library.val.entries[i].meta.name[k])
         /\ \A k \in 1..Len(library.val.entries[i].meta.name) :
              /\ library.val.entries[i].meta.name[k] < 128
              /\ ~(library.val.entries[i].meta.name[k] \in 97..122)
         /\ \A j \in 1..Len(library.val.entries) :
              j # i => library.val.entries[j].meta.name # library.val.entries[i].meta.name)
        => call.res = Ok(i - 1)

\* the query "b" found entry 2, whose stored name is "B"
C8_Witness ==
    /\ call.op = "find"
    /\ library.ok
    /\ call.arg = <<98>>
    /\ Len(library.val.entries) = 3
    /\ library.val.entries[3].meta.name = <<66>>
    /\ call.res = Ok(2)

\* C9: when the presorted flag is 0xABBA, open succeeds only if the
\* sort_to_original values of the N entries form a permutation of 0..N.
C9_PresortedOpenOnlyIfPermutation ==
    (library.ok /\ rsli_file[15] = 186 /\ rsli_file[16] = 171) =>
      /\ \A i \in 1..Len(library.val.entries) :
           library.val.entries[i].sort_to_original \in 0..(Len(library.val.entries) - 1)
      /\ \A i, j \in 1..Len(library.val.entries) :
           i # j => library.val.entries[i].sort_to_original
                      # library.val.entries[j].sort_to_original

\* the libraries of the non-presorted files with a directory of plain names
NonPresortedLibraries ==
    {parse_library(f.bytes, [allow_ao_trailer |-> TRUE,
                             allow_deflate_eof_plus_one |-> TRUE]).val :
       f \in {g \in CodecFiles \cup DirectoryFiles : g.bytes[15] # 186}}

\* C10 as stated: the key of an entry is its 16-bit sort_to_original, and two
\* non-presorted archives with the same N and the same set of names give every
\* name the same key.
C10_KeyFromNameSet ==
    (library.ok /\ rsli_file[15] # 186) =>
      /\ \A i \in 1..Len(library.val.entries) :
           library.val.entries[i].key16
             = (library.val.entries[i].sort_to_original + 65536) % 65536
      /\ \A other \in NonPresortedLibraries :
           (/\ Len(other.entries) = Len(library.val.entries)
            /\ {other.entries[j].meta.name : j \in 1..Len(other.entries)}
                 = {library.val.entries[i].meta.name : i \in 1..Len(library.val.entries)})
           => \A i \in 1..Len(library.val.entries), j \in 1..Len(other.entries) :
                other.entries[j].meta.name = library.val.entries[i].meta.name
                  => other.entries[j].key16 = library.val.entries[i].key16

\* C10, amended: the key of an entry is its 16-bit sort_to_original; in a
\* non-presorted archive entry k gets the original index of the k-th name in
\* byte-wise sorted order (equal names in directory order), and two non-presorted
\* archives with the same names in the same directory order give every entry
\* the same key.
C10_KeyFromDirectoryOrder ==
    (library.ok /\ rsli_file[15] # 186) =>
      /\ \A i \in 1..Len(library.val.entries) :
           /\ library.val.entries[i].key16
                = (library.val.entries[i].sort_to_original + 65536) % 65536
           /\ library.val.entries[i].sort_to_original
                \in 0..(Len(library.val.entries) - 1)
      /\ \A k, l \in 1..Len(library.val.entries) :
           k < l =>
             LET a == library.val.entries[k].sort_to_original
                 b == library.val.entries[l].sort_to_original
                 c == cmp_c_string(c_name_bytes(library.val.entries[a + 1].name_raw),
                                   c_name_bytes(library.val.entries[b + 1].name_raw))
             IN c < 0 \/ (c = 0 /\ a < b)
      /\ \A other \in NonPresortedLibraries :
           (/\ Len(other.entries) = Len(library.val.entries)
            /\ \A i \in 1..Len(other.entries) :
                 other.entries[i].meta.name = library.val.entries[i].meta.name)
           => \A i \in 1..Len(other.entries) :
                other.entries[i].key16 = library.val.entries[i].key16

\* names B, C, A: the keys are 2, 0, 1, and entry 0 was decoded with key 2
C10_Witness ==
    /\ library.ok
    /\ rsli_file[15] # 186
    /\ Len(library.val.entries) = 3
    /\ library.val.entries[1].meta.name = <<66>>
    /\ library.val.entries[1].key16 = 2
    /\ library.val.entries[2].key16 = 0
    /\ library.val.entries[3].key16 = 1
    /\ call.op = "load"
    /\ call.arg = 0
    /\ call.res = Ok(xor_stream(<<1, 2, 3>>, 2))

-----------------------------------------------------------------------------
(* RsLi claims: the Deflate EOF+1 quirk and the AO trailer *)

\* the directory of a library file as the file declares it: per row the method
\* bits, data_offset_raw and packed_size
table_rows(bytes) ==
    LET table == xor_stream(Slice(bytes, 32, 32 + 32 * (bytes[5] + 256 * bytes[6])),
                            bytes[21] + 256 * bytes[22])
    IN [i \in 1..(Len(table) \div 32) |->
          [method_bits |->
             (((table[32 * i - 15] + 256 * table[32 * i - 14]) \div 32) % 16) * 32,
           data_offset_raw |-> from_le_bytes(Slice(table, 32 * i - 8, 32 * i - 4)),
           packed_size |-> from_le_bytes(Slice(table, 32 * i - 4, 32 * i))]]

\* the overlay declared by the last six bytes of a file, None without the
\* signature AO
declared_overlay(bytes) ==
    IF Len(bytes) >= 6 /\ Slice(bytes, Len(bytes) - 6, Len(bytes) - 4) = <<65, 79>>
    THEN Ok(from_le_bytes(Slice(bytes, Len(bytes) - 4, Len(bytes))))
    ELSE Err("None")

\* the overlay in force: the declared one when trailers are allowed and it is
\* at most the file size, else 0
overlay_in_force(bytes, opts) ==
    LET declared == declared_overlay(bytes) IN
    IF opts.allow_ao_trailer /\ declared.ok /\ declared.val <= Len(bytes)
    THEN declared.val
    ELSE 0

\* by how many bytes each row runs past the end of the file
excess(bytes, opts) ==
    LET rows == table_rows(bytes)
        overlay == overlay_in_force(bytes, opts)
    IN [i \in 1..Len(rows) |->
          rows[i].data_offset_raw + overlay + rows[i].packed_size - Len(bytes)]

\* open has returned and nothing was called since
opened == library # Err("unopened") /\ library # Err("unused")
            /\ call = NoCall /\ packed_res = NoResource

\* load or load_packed of a Deflate entry has returned
deflate_loaded ==
    /\ library.ok
    /\ \/ /\ call.op = "load"
          /\ call.arg < Len(library.val.entries)
          /\ library.val.entries[call.arg + 1].meta.method = 256
       \/ /\ packed_res.res.ok
          /\ packed_res.res.val.meta.method = 256

\* C11: an entry whose effective data_offset + packed_size exceeds the file
\* size is accepted by open only when its method bits are 0x100, the excess is
\* one byte and the Deflate EOF+1 quirk is enabled, and then the entry is
\* decoded from the packed_size - 1 bytes at its effective offset; every other
\* overrun makes open fail.
C11_OnlyDeflateOverrunByOne ==
    /\ (opened /\ library.ok) =>
         LET rows == table_rows(rsli_file)
             over == excess(rsli_file, options)
         IN \A i \in 1..Len(rows) :
              over[i] > 0 => /\ rows[i].method_bits = 256
                             /\ over[i] = 1
                             /\ options.allow_deflate_eof_plus_one
    /\ deflate_loaded =>
         LET rows == table_rows(rsli_file)
             over == excess(rsli_file, options)
             overlay == overlay_in_force(rsli_file, options)
         IN \A i \in 1..Len(rows) :
              over[i] > 0 =>
                LET start == rows[i].data_offset_raw + overlay
                    packed == Slice(rsli_file, start, start + rows[i].packed_size - 1)
                IN /\ (call.op = "load" /\ call.arg = i - 1) =>
                        call.res = decode_payload(packed, 256, 0,
                                     library.val.entries[i].meta.unpacked_size,
                                     decode_deflate(inflate_raw(packed, flate.raw),
                                                    flate.zlib))
                   /\ (packed_res.res.ok /\ packed_res.id = i - 1) =>
                        packed_res.res.val.packed = packed

\* an entry that runs one byte past the end of the file has been opened and
\* loaded: the stored block of the file, whole, inflates to its byte
C11_Witness ==
    /\ deflate_loaded
    /\ call.op = "load"
    /\ call.res = Ok(<<7>>)
    /\ excess(rsli_file, options)[call.arg + 1] = 1

\* the rows of a file with method bits 0x100 that end one byte past the end of
\* the file, and the first row of the directory that runs past the end
eof_plus_one(bytes, opts) ==
    LET rows == table_rows(bytes)
        over == excess(bytes, opts)
        past == {i \in 1..Len(rows) : over[i] > 0}
    IN [rows |-> {i \in past : rows[i].method_bits = 256 /\ over[i] = 1},
        first |-> IF past = {} THEN 0 ELSE CHOOSE i \in past : \A k \in past : i <= k]

\* C12 (as stated): with the Deflate EOF+1 quirk disabled, open of an archive
\* that contains an entry with method bits 0x100 and data_offset + packed_size
\* = file_size + 1 fails with DeflateEofPlusOneQuirkRejected carrying the id of
\* that entry.
C12_QuirkRejectedWithId ==
    (opened /\ ~options.allow_deflate_eof_plus_one) =>
      \A i \in eof_plus_one(rsli_file, options).rows :
        library = ErrAt("DeflateEofPlusOneQuirkRejected", i - 1)

\* C12 (amended): with the quirk disabled, open fails whenever some entry has
\* method bits 0x100 and ends one byte past the end of the file; the error is
\* DeflateEofPlusOneQuirkRejected with the id of that entry when the trailer
\* is acceptable and the entry is the first of the directory to run past the
\* end of the file.
C12_QuirkRejectedWithIdOfFirstOverrun ==
    (opened /\ ~options.allow_deflate_eof_plus_one) =>
      LET quirk == eof_plus_one(rsli_file, options) IN
      \A i \in quirk.rows :
        /\ ~library.ok
        /\ (parse_ao_trailer(rsli_file, options.allow_ao_trailer).ok /\ quirk.first = i)
             => library = ErrAt("DeflateEofPlusOneQuirkRejected", i - 1)

\* the quirk is disabled and the second entry of the directory is rejected for it
C12_Witness ==
    /\ opened /\ ~options.allow_deflate_eof_plus_one
    /\ 2 \in eof_plus_one(rsli_file, options).rows
    /\ library = ErrAt("DeflateEofPlusOneQuirkRejected", 1)

\* C13: with AO-trailer acceptance disabled, open of an archive whose last
\* six bytes start with the signature AO is rejected with an error.
C13_TrailerRejectedWhenDisabled ==
    (opened /\ ~options.allow_ao_trailer /\ declared_overlay(rsli_file).ok)
      => ~library.ok

\* C14: when trailers are allowed and the file ends with AO and a u32 overlay
\* that is at most the file size, every entry's effective data offset is
\* data_offset_raw + overlay; in every other case in which open succeeds it is
\* data_offset_raw.
C14_EffectiveOffset ==
    (opened /\ library.ok) =>
      LET rows == table_rows(rsli_file)
          declared == declared_overlay(rsli_file)
          overlay == IF /\ options.allow_ao_trailer
                        /\ declared.ok
                        /\ declared.val <= Len(rsli_file)
                     THEN declared.val
                     ELSE 0
      IN \A i \in 1..Len(library.val.entries) :
           /\ library.val.entries[i].effective_offset = rows[i].data_offset_raw + overlay
           /\ library.val.entries[i].meta.data_offset = rows[i].data_offset_raw + overlay

\* a library with entries was opened with trailers allowed from a file whose
\* trailer declares an overlay that is not 0
C14_Witness ==
    /\ opened /\ library.ok
    /\ Len(library.val.entries) > 0
    /\ options.allow_ao_trailer
    /\ declared_overlay(rsli_file).ok
    /\ declared_overlay(rsli_file).val > 0


-----------------------------------------------------------------------------
(* Claims about the files written by commit *)

\* the directory of an NRes file as the file declares it: entry_count records
\* of 64 bytes at the end of the file
directory_of(bytes) ==
    LET n == from_le_bytes(Slice(bytes, 8, 12))
        base(k) == Len(bytes) - 64 * n + 64 * (k - 1)
    IN [k \in 1..n |->
          [name |-> entry_name_bytes(Slice(bytes, base(k) + 20, base(k) + 56)),
           data_size |-> from_le_bytes(Slice(bytes, base(k) + 12, base(k) + 16)),
           data_offset |-> from_le_bytes(Slice(bytes, base(k) + 56, base(k) + 60)),
           sort_index |-> from_le_bytes(Slice(bytes, base(k) + 60, base(k) + 64))]]

\* the 0-based position of each entry in the sequence of all entries sorted by
\* name case-insensitively, entries with equal names in directory order
position_by_name(directory) ==
    [i \in 1..Len(directory) |->
       Cardinality({j \in 1..Len(directory) :
                      LET c == cmp_name_case_insensitive(directory[j].name,
                                                         directory[i].name)
                      IN c < 0 \/ (c = 0 /\ j < i)})]

\* commit has returned Ok: the target file is the file it wrote
committed == pc \in {"done", "reopened"} /\ commit_res = "ok"

\* the entries of the editor are Zulu, alpha and Beta, in this order
zulu_alpha_beta == [i \in 1..Len(expected) |-> expected[i].name]
                     = <<EntryZulu.name, EntryAlpha.name, EntryBeta.name>>

\* C15 (as stated): after a commit each entry's stored sort_index is that
\* entry's position in the sequence of all entries sorted by name
\* case-insensitively; for entries added in the order Zulu, alpha, Beta the
\* stored values are [2, 0, 1].
C15_SortIndexIsPositionOfEntry ==
    committed =>
      LET directory == directory_of(disk.target.bytes)
          position == position_by_name(directory)
      IN /\ \A i \in 1..Len(directory) : directory[i].sort_index = position[i]
         /\ zulu_alpha_beta =>
              [i \in 1..Len(directory) |-> directory[i].sort_index] = <<2, 0, 1>>

\* C15 (amended): after a commit the sort_index stored in the record at
\* position k of the directory is the index of the entry that holds position
\* k in the sequence of all entries sorted by name case-insensitively; for
\* entries added in the order Zulu, alpha, Beta the stored values are
\* [1, 2, 0].
C15_SortIndexIsEntryAtPosition ==
    committed =>
      LET directory == directory_of(disk.target.bytes)
          position == position_by_name(directory)
      IN /\ \A k \in 1..Len(directory) :
              /\ directory[k].sort_index < Len(directory)
              /\ position[directory[k].sort_index + 1] = k - 1
         /\ zulu_alpha_beta =>
              [i \in 1..Len(directory) |-> directory[i].sort_index] = <<1, 2, 0>>

\* Zulu, alpha and Beta were added to an empty archive and committed
C15_Witness ==
    /\ committed
    /\ edits = 3
    /\ zulu_alpha_beta
    /\ Len(directory_of(disk.target.bytes)) = 3

\* C16: in every file written by commit the sort_index values, read in
\* directory order, list the entry indices in ascending case-insensitive name
\* order: every index occurs once and the name of entries[entries[k].sort_index]
\* is non-decreasing in k.
C16_SortTableIsSortedView ==
    committed =>
      LET directory == directory_of(disk.target.bytes)
          n == Len(directory)
      IN /\ {directory[k].sort_index : k \in 1..n} = 0..(n - 1)
         /\ \A k \in 1..(n - 1) :
              cmp_name_case_insensitive(
                directory[directory[k].sort_index + 1].name,
                directory[directory[k + 1].sort_index + 1].name) <= 0

\* a committed file of three entries or more whose sort table is not the
\* identity, with two names whose case-insensitive order is the reverse of the
\* order of their first bytes
C16_Witness ==
    /\ committed
    /\ LET directory == directory_of(disk.target.bytes) IN
       /\ Len(directory) >= 3
       /\ \E k \in 1..Len(directory) : directory[k].sort_index # k - 1
       /\ \E i, j \in 1..Len(directory) :
            /\ cmp_name_case_insensitive(directory[i].name, directory[j].name) < 0
            /\ directory[i].name[1] > directory[j].name[1]

\* C17: in every file written by commit every data_offset is at least 16 and
\* a multiple of 8, the data regions lie in directory order without
\* overlapping, each region is followed by zero bytes up to the next 8-byte
\* boundary, and the header's total_size is the file length, which is the
\* directory offset plus 64 times the entry count.
C17_CommittedLayout ==
    committed =>
      LET F == disk.target.bytes
          directory == directory_of(F)
          n == Len(directory)
          end(k) == directory[k].data_offset + directory[k].data_size
          aligned(x) == ((x + 7) \div 8) * 8
          directory_offset == IF n = 0 THEN 16 ELSE aligned(end(n))
      IN /\ \A k \in 1..n :
              /\ directory[k].data_offset >= 16
              /\ directory[k].data_offset % 8 = 0
              /\ k > 1 => directory[k].data_offset >= end(k - 1)
              /\ \A j \in (end(k) + 1)..aligned(end(k)) : F[j] = 0
              /\ end(k) <= directory_offset
         /\ from_le_bytes(Slice(F, 12, 16)) = Len(F)
         /\ Len(F) = directory_offset + 64 * n

\* a committed file with two entries or more, one of them with data that ends
\* off an 8-byte boundary
C17_Witness ==
    /\ committed
    /\ LET directory == directory_of(disk.target.bytes) IN
       /\ Len(directory) >= 2
       /\ \E k \in 1..(Len(directory) - 1) : directory[k].data_size % 8 # 0


-----------------------------------------------------------------------------
(* Claims about the reader: find and the conditions of open *)

\* C18: find(name) returns the id of an entry whose name equals the query
\* ignoring ASCII case whenever such an entry exists, and none otherwise, also
\* when the stored sort_index values are out of range or do not describe a
\* sorted permutation.
C18_FindReturnsEntryOfThatName ==
    last_find.done =>
      LET same == {i \in 0..(Len(archive.entries) - 1) :
                     /\ Len(archive.entries[i + 1].meta.name) = Len(last_find.name)
                     /\ \A k \in 1..Len(last_find.name) :
                          ascii_lower(archive.entries[i + 1].meta.name[k])
                            = ascii_lower(last_find.name[k])}
      IN IF same # {} THEN last_find.res.ok /\ last_find.res.val \in same
         ELSE ~last_find.res.ok

\* C19: normal-mode open(bytes) succeeds exactly when the length is at least
\* 16, the magic is NRes, the version is 0x100, entry_count is not negative,
\* the header's total_size is the length, directory_offset = total_size -
\* 64 * entry_count is at least 16, every name is at most 35 bytes and every
\* entry has 16 <= data_offset and data_offset + data_size <= directory_offset;
\* in every other case it returns an error.
C19_OpenSucceedsExactlyWhenValid ==
    (open_res \notin {"unopened", "unused"} /\ ~archive.raw_mode) =>
      LET entry_count == i32_from_le_bytes(Slice(input, 8, 12))
          directory_offset == Len(input) - 64 * entry_count
          field(k, from, to) ==
            Slice(input, directory_offset + 64 * k + from, directory_offset + 64 * k + to)
          valid ==
            /\ Len(input) >= 16
            /\ Slice(input, 0, 4) = <<78, 82, 101, 115>>
            /\ Slice(input, 4, 8) = <<0, 1, 0, 0>>
            /\ entry_count >= 0
            /\ Slice(input, 12, 16) = to_le_bytes(Len(input))
            /\ directory_offset >= 16
            /\ \A k \in 0..(entry_count - 1) :
                 /\ \E j \in 1..36 : field(k, 20, 56)[j] = 0
                 /\ from_le_bytes(field(k, 56, 60)) >= 16
                 /\ from_le_bytes(field(k, 56, 60)) + from_le_bytes(field(k, 12, 16))
                      <= directory_offset
      IN (open_res = "ok") <=> valid

\* a normal-mode open of an image with two records has succeeded
C19_Witness ==
    /\ open_res = "ok" /\ archive.open /\ ~archive.raw_mode
    /\ Len(archive.entries) = 2

-----------------------------------------------------------------------------
(* Claims about the keyed decoders *)

\* a load of an entry packed with XorLzss or XorLzssHuffman has returned
xor_packed_loaded ==
    /\ library.ok
    /\ call.op = "load"
    /\ call.arg < Len(library.val.entries)
    /\ library.val.entries[call.arg + 1].meta.method \in {96, 160}
    /\ load_packed(library.val, call.arg).ok

\* C20: the keyed decoders advance the XOR state over every input byte they
\* consume, control bytes included: whatever the packed bytes C, the key k and
\* the expected size n of the entry, decoding C as XorLzss with k gives the
\* result of decoding xor_stream(C, k) as plain Lzss, and decoding C as
\* XorLzssHuffman with k gives the result of decoding xor_stream(C, k) as
\* plain LzssHuffman.
C20_FusedXorEqualsXorThenPlain ==
    xor_packed_loaded =>
      LET entry == library.val.entries[call.arg + 1]
          packed == load_packed(library.val, call.arg).val.packed
      IN call.res = decode_payload(xor_stream(packed, entry.key16),
                                   entry.meta.method - 32, 0,
                                   entry.meta.unpacked_size, Err("none"))

\* an XorLzss entry with a non-zero key whose packed bytes the key stream
\* changes has been decoded to at least two bytes: a control byte and two more
\* bytes were consumed
C20_Witness ==
    /\ xor_packed_loaded
    /\ library.val.entries[call.arg + 1].meta.method = 96
    /\ library.val.entries[call.arg + 1].key16 # 0
    /\ call.res.ok
    /\ Len(call.res.val) >= 2
    /\ LET packed == load_packed(library.val, call.arg).val.packed
       IN xor_stream(packed, library.val.entries[call.arg + 1].key16) # packed

-----------------------------------------------------------------------------
(* Claims about the XOR stream *)

XorKeys == {0, 1, 255, 256, 43962, 65535}

\* a load of an XorOnly entry has returned
xor_only_loaded ==
    /\ library.ok
    /\ call.op = "load"
    /\ call.arg < Len(library.val.entries)
    /\ library.val.entries[call.arg + 1].meta.method = 32
    /\ load_packed(library.val, call.arg).ok

\* C21 as stated: the XOR stream is not an involution, i.e. there are a byte
\* string X and a key k for which decrypting X twice with k does not give X.
C21_XorStreamNotInvolution ==
    xor_only_loaded =>
      \E X \in PackedStreams, k \in XorKeys : xor_stream(xor_stream(X, k), k) # X

\* C21: the XOR stream is an involution: decrypting the bytes that load
\* returned for an XorOnly entry gives the packed bytes back, and decrypting
\* the packed bytes twice with any one key gives the packed bytes.
C21_XorStreamIsInvolution ==
    xor_only_loaded =>
      LET entry == library.val.entries[call.arg + 1]
          X == load_packed(library.val, call.arg).val.packed
      IN /\ call.res.ok =>
              xor_stream(call.res.val, entry.key16) = SubSeq(X, 1, entry.meta.unpacked_size)
         /\ \A k \in XorKeys : xor_stream(xor_stream(X, k), k) = X

\* load has decrypted at least two bytes with a non-zero key and changed them
C21_Witness ==
    /\ xor_only_loaded
    /\ library.val.entries[call.arg + 1].key16 # 0
    /\ call.res.ok
    /\ Len(call.res.val) >= 2
    /\ call.res.val # SubSeq(load_packed(library.val, call.arg).val.packed, 1, Len(call.res.val))

-----------------------------------------------------------------------------
(* Claims about input that ends early *)

\* a load of an LZSS or LZSS+Huffman entry that has no packed bytes at all and
\* a positive unpacked_size has returned
empty_stream_loaded ==
    /\ library.ok
    /\ call.op = "load"
    /\ call.arg < Len(library.val.entries)
    /\ library.val.entries[call.arg + 1].meta.method \in {64, 96, 128, 160}
    /\ library.val.entries[call.arg + 1].meta.unpacked_size > 0
    /\ library.val.entries[call.arg + 1].meta.packed_size = 0

\* C22: whenever the LZSS or LZSS+Huffman decoder runs out of input before it
\* has produced unpacked_size bytes, decoding fails with an unexpected-EOF
\* decompression error and no bits or bytes are made up; here for the plainest
\* case, an entry with no packed bytes at all and a positive unpacked_size.
C22_RunningOutOfInputIsAnError ==
    empty_stream_loaded =>
      (~call.res.ok /\
       call.res.err \in {"lzss-simple: unexpected EOF", "lzss-huffman: unexpected EOF"})

-----------------------------------------------------------------------------
(* Claims about Deflate entries *)

\* a load of a Deflate entry whose packed bytes are the zlib stream of its
\* payload has returned
zlib_wrapped_loaded ==
    /\ library.ok
    /\ call.op = "load"
    /\ call.arg < Len(library.val.entries)
    /\ library.val.entries[call.arg + 1].meta.method = 256
    /\ load_packed(library.val, call.arg).ok
    /\ load_packed(library.val, call.arg).val.packed
         \in {deflate_zlib(<<7, 7>>), deflate_zlib(LongPayload)}

\* C23: loading a Deflate entry whose packed bytes are a zlib-wrapped stream
\* (not a raw Deflate stream) fails with the "deflate" decompression error.
C23_ZlibWrappedStreamRejected ==
    zlib_wrapped_loaded => call.res = Err("DecompressionFailed")

-----------------------------------------------------------------------------
(* Claims about a commit that fails *)

\* C30: if commit returns an error, the target path still exists and still
\* holds the complete archive bytes it held before the commit started.
C30_FailedCommitKeepsTarget ==
    (pc = "done" /\ commit_res \notin {"ok", "none"}) =>
      (before.exists /\ disk.target = before)

-----------------------------------------------------------------------------
(* The adaptive Huffman tree of LzhDecoder over a long run of symbols *)

\* the number of updates followed: the root frequency starts at LZH_N_CHAR and
\* grows by one with each update, so update number LZH_MAX_FREQ - LZH_N_CHAR + 1
\* is the first that rebuilds the tree
MaxSymbols == 32460

\* the decoded symbols, repeated in a cycle: literals and match lengths
SymbolCycles == {<<116>>, <<0, 255, 313, 65, 65, 256>>}

RECURSIVE update_run(_, _, _, _)
\* the updates that the loop of LzhDecoder::decode makes for the symbols number
\* from .. to - 1 of the cycle
update_run(t, cycle, from, to) ==
    IF to <= from THEN t
    ELSE IF to = from + 1 THEN update(t, cycle[(from % Len(cycle)) + 1])
    ELSE LET half == update_run(t, cycle, from, (from + to) \div 2) IN
         IF half.parent[LZH_R] = 0 THEN update_run(half, cycle, (from + to) \div 2, to)
         ELSE half

InitLzhTree ==
    /\ NresOpenIdle
    /\ NresEditIdle
    /\ RsliIdle
    /\ \E cycle \in SymbolCycles :
         decoder = [tree |-> start_huff, symbols |-> 0, cycle |-> cycle]
    /\ msh_payload = <<>>
    /\ msh_model = Err("unused")
    /\ render_mesh = [lod |-> 0, group |-> 0, res |-> Err("none")]
    /\ texm_payload = <<>>
    /\ texture = Err("unused")
    /\ mission = <<>>
    /\ scene = Err("unused")

\* one turn of the loop of LzhDecoder::decode: update for the next symbol
LzhUpdate ==
    /\ decoder.symbols < MaxSymbols
    /\ decoder' =
         [decoder EXCEPT
            !.tree = update(@, decoder.cycle[(decoder.symbols % Len(decoder.cycle)) + 1]),
            !.symbols = @ + 1]
    /\ UNCHANGED <<msh_payload, msh_model, render_mesh, texm_payload, texture, mission,
                   scene, nresOpenVars, nresEditVars, rsliVars>>

\* a run of 64 or 4096 turns of the loop, started at a multiple of its length
LzhDecodeRun ==
    /\ \E turns \in {64, 4096} :
         /\ decoder.symbols % turns = 0
         /\ decoder.symbols + turns <= MaxSymbols
         /\ decoder' =
              [decoder EXCEPT
                 !.tree = update_run(@, decoder.cycle, decoder.symbols,
                                     decoder.symbols + turns),
                 !.symbols = @ + turns]
    /\ UNCHANGED <<msh_payload, msh_model, render_mesh, texm_payload, texture, mission,
                   scene, nresOpenVars, nresEditVars, rsliVars>>

NextLzhTree == LzhUpdate \/ LzhDecodeRun

SpecLzhTree == InitLzhTree /\ [][NextLzhTree]_vars

RECURSIVE leaf_below(_, _, _)
\* the leaf that decode_char reaches from node along the bits (0 where they end)
leaf_below(tree, node, bits) ==
    IF node >= LZH_T THEN node - LZH_T
    ELSE leaf_below(tree, tree.son[node + (IF bits = <<>> THEN 0 ELSE Head(bits))],
                    IF bits = <<>> THEN <<>> ELSE Tail(bits))

\* C29: after initialisation and after every symbol update of the LZSS+Huffman
\* decoder, the rebuild at root frequency 0x8000 included, the tree is
\* sibling-property-valid: frequencies do not decrease with the node index,
\* every internal node's frequency is the sum of its two sons' frequencies, son
\* and parent agree, every symbol has exactly one leaf, the sons of a node lie
\* below it, and decoding from the root ends at a leaf in 0..313.
C29_TreeStaysValid ==
    decoder.tree # <<>> =>
      LET t == decoder.tree IN
      /\ t.freq[LZH_R] = LZH_N_CHAR + decoder.symbols
           \/ (t.freq[LZH_R] <= LZH_MAX_FREQ /\ decoder.symbols > LZH_MAX_FREQ - LZH_N_CHAR)
      /\ \A i \in 0..LZH_R :
           LET s == t.son[i] IN
           /\ t.freq[i] <= t.freq[i + 1]
           /\ t.parent[s] = i
           /\ IF s < LZH_T
              THEN /\ s + 1 < i
                   /\ t.freq[i] = t.freq[s] + t.freq[s + 1]
                   /\ t.parent[s + 1] = i
              ELSE s < LZH_T + LZH_N_CHAR
      /\ \A c \in 0..(LZH_N_CHAR - 1) : t.son[t.parent[c + LZH_T]] = c + LZH_T
      /\ t.parent[LZH_R] = 0
      /\ \A bits \in {<<>>, <<1, 1, 1, 1, 1, 1, 1, 1, 1, 1, 1, 1, 1, 1, 1, 1>>,
                      <<0, 1, 0, 1, 0, 1, 0, 1, 0, 1, 0, 1, 0, 1, 0, 1>>} :
           leaf_below(t, t.son[LZH_R], bits) \in 0..(LZH_N_CHAR - 1)

\* the tree has just been rebuilt: the root frequency is no longer the number
\* of symbols seen
C29_Witness ==
    /\ decoder.symbols = LZH_MAX_FREQ - LZH_N_CHAR + 1
    /\ decoder.tree.freq[LZH_R] < LZH_MAX_FREQ
    /\ decoder.tree.freq[LZH_R] # LZH_N_CHAR + decoder.symbols

-----------------------------------------------------------------------------
(* Mesh payloads: msh-core *)

\* read_u16: a little-endian u16 at a byte offset
read_u16(data, offset) ==
    IF offset + 2 > Len(data) THEN Err("IntegerOverflow")
    ELSE Ok(data[offset + 1] + 256 * data[offset + 2])

\* read_u32 (the model only builds fields below 2^31)
read_u32(data, offset) ==
    IF offset + 4 > Len(data) THEN Err("IntegerOverflow")
    ELSE Ok(from_le_bytes(Slice(data, offset, offset + 4)))

\* read_i8
read_i8(data, offset) ==
    IF offset + 1 > Len(data) THEN Err("IntegerOverflow")
    ELSE Ok(IF data[offset + 1] >= 128 THEN data[offset + 1] - 256 ELSE data[offset + 1])

\* read_f32 of count consecutive floats; a float is held as its four bytes
read_f32s(data, offset, count) ==
    [k \in 1..count |-> Slice(data, offset + 4 * (k - 1), offset + 4 * k)]

\* the first entry of a kind: entries().find(|entry| entry.meta.kind == kind)
find_kind(a, kind) ==
    LET hits == {i \in 1..Len(a.entries) : a.entries[i].meta.kind = kind} IN
    IF hits = {} THEN Err("None")
    ELSE Ok((CHOOSE i \in hits : \A j \in hits : i <= j) - 1)

\* read_optional: Ok(Err("None")) when the archive holds no entry of the kind
read_optional(a, kind) ==
    LET id == find_kind(a, kind) IN
    IF ~id.ok THEN Ok(Err("None"))
    ELSE LET data == read(a, id.val) IN
         IF ~data.ok THEN Err("Nres")
         ELSE Ok(Ok([meta |-> a.entries[id.val + 1].meta, bytes |-> data.val]))

\* read_required
read_required(a, kind) ==
    LET got == read_optional(a, kind) IN
    IF ~got.ok THEN got
    ELSE IF ~got.val.ok THEN Err("MissingResource")
    ELSE Ok(got.val.val)

\* one Slot of Res2, 68 bytes from off
parse_slot(data, off) ==
    IF off + 68 > Len(data) THEN Err("IntegerOverflow")
    ELSE Ok([tri_start |-> read_u16(data, off).val,
             tri_count |-> read_u16(data, off + 2).val,
             batch_start |-> read_u16(data, off + 4).val,
             batch_count |-> read_u16(data, off + 6).val,
             aabb_min |-> read_f32s(data, off + 8, 3),
             aabb_max |-> read_f32s(data, off + 20, 3),
             sphere_center |-> read_f32s(data, off + 32, 3),
             sphere_radius |-> read_f32s(data, off + 44, 1)[1],
             opaque |-> [k \in 1..5 |-> read_u32(data, off + 48 + 4 * (k - 1)).val]])

\* the slot loop of parse_model_payload
parse_slots(data, slot_count) ==
    [i \in 1..slot_count |-> parse_slot(data, 140 + (i - 1) * 68).val]

\* parse_positions
parse_positions(data) ==
    IF Len(data) % 12 # 0 THEN Err("InvalidResourceSize Res3")
    ELSE Ok([i \in 1..(Len(data) \div 12) |-> read_f32s(data, (i - 1) * 12, 3)])

\* parse_batches
parse_batches(data) ==
    IF Len(data) % 20 # 0 THEN Err("InvalidResourceSize Res13")
    ELSE Ok([i \in 1..(Len(data) \div 20) |->
              LET off == (i - 1) * 20 IN
              [batch_flags |-> read_u16(data, off).val,
               material_index |-> read_u16(data, off + 2).val,
               opaque4 |-> read_u16(data, off + 4).val,
               opaque6 |-> read_u16(data, off + 6).val,
               index_count |-> read_u16(data, off + 8).val,
               index_start |-> read_u32(data, off + 10).val,
               opaque14 |-> read_u16(data, off + 14).val,
               base_vertex |-> read_u32(data, off + 16).val]])

\* parse_u16_array
parse_u16_array(data, label) ==
    IF Len(data) % 2 # 0 THEN Err(label)
    ELSE Ok([i \in 1..(Len(data) \div 2) |-> read_u16(data, (i - 1) * 2).val])

\* parse_i8x4_array
parse_i8x4_array(data, label) ==
    IF Len(data) % 4 # 0 THEN Err(label)
    ELSE Ok([i \in 1..(Len(data) \div 4) |->
              [k \in 1..4 |-> read_i8(data, (i - 1) * 4 + k - 1).val]])

\* parse_i16x2_array
parse_i16x2_array(data, label) ==
    IF Len(data) % 4 # 0 THEN Err(label)
    ELSE Ok([i \in 1..(Len(data) \div 4) |->
              << i16_from_le_bytes(Slice(data, (i - 1) * 4, (i - 1) * 4 + 2)),
                 i16_from_le_bytes(Slice(data, (i - 1) * 4 + 2, (i - 1) * 4 + 4)) >>])

\* String::from_utf8_lossy on text without multi-byte sequences: a byte that
\* is no ASCII becomes U+FFFD
from_utf8_lossy(text) ==
    [i \in 1..Len(text) |-> IF text[i] < 128 THEN text[i] ELSE 65533]

RECURSIVE parse_res10_names(_, _, _, _)
\* parse_res10_names, with the offset and the names read so far
parse_res10_names(data, node_count, off, out) ==
    IF Len(out) >= node_count THEN Ok(out)
    ELSE LET len == read_u32(data, off) IN
         IF ~len.ok THEN len
         ELSE IF len.val = 0
         THEN parse_res10_names(data, node_count, off + 4, Append(out, Err("None")))
         ELSE LET end == off + 4 + len.val + 1 IN
              IF end > Len(data) THEN Err("InvalidResourceSize Res10")
              ELSE LET slice == Slice(data, off + 4, end)
                       text == IF slice[Len(slice)] = 0
                               THEN SubSeq(slice, 1, Len(slice) - 1)
                               ELSE slice
                   IN parse_res10_names(data, node_count, end,
                                        Append(out, Ok(from_utf8_lossy(text))))

\* a range check that lets every slot through
validate_slot_batch_ranges_off(slots, batch_count) == Ok(TRUE)

\* validate_slot_batch_ranges
validate_slot_batch_ranges(slots, batch_count) ==
    IF \E i \in 1..Len(slots) : slots[i].batch_start + slots[i].batch_count > batch_count
    THEN Err("IndexOutOfBounds Res2.batch_range")
    ELSE Ok(TRUE)

\* validate_batch_index_ranges
validate_batch_index_ranges(batches, index_count) ==
    IF \E i \in 1..Len(batches) :
         batches[i].index_start + batches[i].index_count > index_count
    THEN Err("IndexOutOfBounds Res13.index_range")
    ELSE Ok(TRUE)

\* parse_model_payload from the five required resources on
parse_resources(res1, res2, res3, res6, res13, res4, res5, res10) ==
    LET node_stride == res1.meta.attr3 IN
    IF node_stride # 38 /\ node_stride # 24 THEN Err("UnsupportedNodeStride")
    ELSE IF Len(res1.bytes) % node_stride # 0 THEN Err("InvalidResourceSize Res1")
    ELSE IF Len(res2.bytes) < 140 THEN Err("InvalidRes2Size")
    ELSE IF (Len(res2.bytes) - 140) % 68 # 0 THEN Err("InvalidResourceSize Res2.slots")
    ELSE
      LET node_count == Len(res1.bytes) \div node_stride
          slots == parse_slots(res2.bytes, (Len(res2.bytes) - 140) \div 68)
          positions == parse_positions(res3.bytes)
          indices == parse_u16_array(res6.bytes, "InvalidResourceSize Res6")
          batches == parse_batches(res13.bytes)
      IN
      IF ~positions.ok THEN positions
      ELSE IF ~indices.ok THEN indices
      ELSE IF ~batches.ok THEN batches
      ELSE
        LET slot_ranges == validate_slot_batch_ranges(slots, Len(batches.val))
            index_ranges == validate_batch_index_ranges(batches.val, Len(indices.val))
            normals == IF res4.ok
                       THEN parse_i8x4_array(res4.val.bytes, "InvalidResourceSize Res4")
                       ELSE Ok(<<>>)
            uv0 == IF res5.ok
                   THEN parse_i16x2_array(res5.val.bytes, "InvalidResourceSize Res5")
                   ELSE Ok(<<>>)
            node_names == IF res10.ok
                          THEN parse_res10_names(res10.val.bytes, node_count, 0, <<>>)
                          ELSE Ok(<<>>)
        IN
        IF ~slot_ranges.ok THEN slot_ranges
        ELSE IF ~index_ranges.ok THEN index_ranges
        ELSE IF ~normals.ok THEN normals
        ELSE IF ~uv0.ok THEN uv0
        ELSE IF ~node_names.ok THEN node_names
        ELSE Ok([node_stride |-> node_stride, node_count |-> node_count,
                 nodes_raw |-> res1.bytes, slots |-> slots,
                 positions |-> positions.val,
                 normals |-> IF res4.ok THEN normals ELSE Err("None"),
                 uv0 |-> IF res5.ok THEN uv0 ELSE Err("None"),
                 indices |-> indices.val, batches |-> batches.val,
                 node_names |-> IF res10.ok THEN node_names ELSE Err("None")])

\* parse_model_payload
parse_model_payload(payload) ==
    LET a == open_bytes(payload, FALSE) IN
    IF ~a.ok THEN Err("Nres")
    ELSE
      LET res1 == read_required(a.val, 1)
          res2 == read_required(a.val, 2)
          res3 == read_required(a.val, 3)
          res6 == read_required(a.val, 6)
          res13 == read_required(a.val, 13)
          res4 == read_optional(a.val, 4)
          res5 == read_optional(a.val, 5)
          res10 == read_optional(a.val, 10)
      IN
      IF ~res1.ok THEN res1
      ELSE IF ~res2.ok THEN res2
      ELSE IF ~res3.ok THEN res3
      ELSE IF ~res6.ok THEN res6
      ELSE IF ~res13.ok THEN res13
      ELSE IF ~res4.ok THEN res4
      ELSE IF ~res5.ok THEN res5
      ELSE IF ~res10.ok THEN res10
      ELSE parse_resources(res1.val, res2.val, res3.val, res6.val, res13.val,
                           res4.val, res5.val, res10.val)

\* Model::slot_index
slot_index(m, node_index, lod, group) ==
    IF node_index >= m.node_count \/ lod >= 3 \/ group >= 5 THEN Err("None")
    ELSE IF m.node_stride # 38 THEN Err("None")
    ELSE LET raw == read_u16(m.nodes_raw, node_index * 38 + 8 + (lod * 5 + group) * 2) IN
         IF ~raw.ok THEN Err("None")
         ELSE IF raw.val = 65535 THEN Err("None")
         ELSE IF raw.val >= Len(m.slots) THEN Err("None")
         ELSE raw

-----------------------------------------------------------------------------
(* Mesh fixtures: the builders of msh-core's tests *)

\* u16::to_le_bytes
u16_to_le_bytes(v) == << v % 256, (v \div 256) % 256 >>

\* res1_stride38_nodes: node_count nodes without slots, node 0 given slot
\* node0_slot00 for lod 0, group 0
res1_stride38_nodes(node_count, node0_slot00) ==
    [i \in 1..(node_count * 38) |->
       LET at == (i - 1) % 38 IN
       IF i - 1 \in {8, 9} /\ node0_slot00.ok
       THEN u16_to_le_bytes(node0_slot00.val)[i - 8]
       ELSE IF at >= 8 THEN 255 ELSE 0]

\* res2_single_slot, for a list of slots <<batch_start, batch_count>>
res2_slots(slots) ==
    Zeros(140) \o Flatten([i \in 1..Len(slots) |->
        Zeros(4) \o u16_to_le_bytes(slots[i][1]) \o u16_to_le_bytes(slots[i][2])
          \o Zeros(60)])

\* res3_triangle_positions: (0,0,0), (1,0,0), (0,1,0) as f32
res3_triangle_positions ==
    Zeros(12) \o <<0, 0, 128, 63>> \o Zeros(8) \o Zeros(4) \o <<0, 0, 128, 63>> \o Zeros(4)

\* res5_uv0
res5_uv0 == <<0, 4, 0, 252>>

\* res6_triangle_indices, for a list of indices
res6_indices(indices) == Flatten([i \in 1..Len(indices) |-> u16_to_le_bytes(indices[i])])

\* res13_single_batch, for a list of batches <<index_start, index_count>>
res13_batches(batches) ==
    Flatten([i \in 1..Len(batches) |->
        Zeros(8) \o u16_to_le_bytes(batches[i][2]) \o to_le_bytes(batches[i][1])
          \o Zeros(6)])

\* synthetic_entry
synthetic_entry(kind, name, attr3, data) == SyntheticEntry(kind, 1, 0, attr3, name, data)

\* base_synthetic_entries with the slots, batches and indices given
synthetic_entries(stride, slots, batches, indices) ==
    << synthetic_entry(1, <<82, 101, 115, 49>>, stride,
                       IF stride = 38 THEN res1_stride38_nodes(1, Ok(0)) ELSE Zeros(stride)),
       synthetic_entry(2, <<82, 101, 115, 50>>, 68, res2_slots(slots)),
       synthetic_entry(3, <<82, 101, 115, 51>>, 12, res3_triangle_positions),
       synthetic_entry(6, <<82, 101, 115, 54>>, 2, res6_indices(indices)),
       synthetic_entry(13, <<82, 101, 115, 49, 51>>, 20, res13_batches(batches)) >>

\* sequences of at most two members of a set
UpToTwo(S) == {<<>>} \cup {<<a>> : a \in S} \cup {<<a, b>> : a \in S, b \in S}

\* slots as <<batch_start, batch_count>>
SlotChoices == {<<0, 0>>, <<0, 1>>, <<0, 2>>, <<1, 1>>, <<2, 1>>, <<65535, 1>>}

\* batches as <<index_start, index_count>>
BatchChoices == {<<0, 3>>, <<3, 3>>, <<4, 3>>, <<0, 2>>}

IndexChoices == {<<0, 1, 2>>, <<0, 1, 2, 2, 1, 3>>}

\* payloads whose resources all have a valid size
SizedPayloads ==
    {build_nres_bytes(synthetic_entries(38, s, b, x)) :
       s \in UpToTwo(SlotChoices), b \in UpToTwo(BatchChoices), x \in IndexChoices}

\* payloads with a resource missing, a bad stride or size, optional resources,
\* and bytes that are no archive
OtherPayloads ==
    LET base == synthetic_entries(38, <<<<0, 1>>>>, <<<<0, 3>>>>, <<0, 1, 2>>) IN
    {build_nres_bytes(SubSeq(base, 1, k - 1) \o SubSeq(base, k + 1, 5)) : k \in 1..5}
    \cup {build_nres_bytes(synthetic_entries(st, <<<<0, 1>>>>, <<<<0, 3>>>>, <<0, 1, 2>>)) :
            st \in {24, 39}}
    \cup {build_nres_bytes([base EXCEPT ![k].data = Append(@, 0)]) : k \in 1..5}
    \cup {build_nres_bytes(base \o <<synthetic_entry(5, <<82, 101, 115, 53>>, 4, uv)>>) :
            uv \in {res5_uv0, <<0, 4, 0>>}}
    \cup {build_nres_bytes(base \o <<synthetic_entry(4, <<82, 101, 115, 52>>, 4, nm)>>) :
            nm \in {<<127, 0, 128, 0>>, <<127>>}}
    \cup {build_nres_bytes(base \o <<synthetic_entry(10, <<82, 101, 115, 49, 48>>, 1, nm)>>) :
            nm \in {Zeros(4), <<2, 0, 0, 0, 65, 255, 0>>, <<2, 0, 0, 0, 65>>, <<1, 0>>}}
    \cup {<<>>, <<78, 82, 101, 115>>, Zeros(16)}

MeshPayloads == SizedPayloads \cup OtherPayloads

LodGroups == {<<0, 0>>, <<0, 1>>, <<3, 0>>}

-----------------------------------------------------------------------------
(* Render meshes: render-core *)

\* the uv of a vertex, in units of 1/1024: packed / 1024.0, or [0.0, 0.0]
vertex_uv(m, final_idx) ==
    IF m.uv0.ok /\ final_idx < Len(m.uv0.val) THEN m.uv0.val[final_idx + 1] ELSE <<0, 0>>

\* a push that leaves out a vertex the list already holds
push_vertex_once(m, vertices, final_idx) ==
    LET v == [position |-> m.positions[final_idx + 1], uv0 |-> vertex_uv(m, final_idx)] IN
    IF \E k \in 1..Len(vertices) : vertices[k] = v THEN vertices ELSE Append(vertices, v)

\* vertices.push(RenderVertex { position, uv0 })
push_vertex(m, vertices, final_idx) ==
    Append(vertices,
           [position |-> m.positions[final_idx + 1], uv0 |-> vertex_uv(m, final_idx)])

RECURSIVE walk_indices(_, _, _, _, _)
\* the loop over model.indices[index_start..index_end], from position at on
walk_indices(m, batch, at, index_end, vertices) ==
    IF at >= index_end THEN vertices
    ELSE LET final_idx == batch.base_vertex + m.indices[at + 1] IN
         walk_indices(m, batch, at + 1, index_end,
                      IF final_idx < Len(m.positions)
                      THEN push_vertex(m, vertices, final_idx)
                      ELSE vertices)

RECURSIVE walk_batches(_, _, _, _)
\* the loop over model.batches[batch_start..batch_end], from batch at on;
\* mesh = [vertices, batch_count]
walk_batches(m, at, batch_end, mesh) ==
    IF at >= batch_end THEN mesh
    ELSE LET batch == m.batches[at + 1]
             index_end == batch.index_start + batch.index_count
         IN walk_batches(m, at + 1, batch_end,
              IF index_end > Len(m.indices) \/ batch.index_count < 3 THEN mesh
              ELSE [vertices |-> walk_indices(m, batch, batch.index_start, index_end,
                                              mesh.vertices),
                    batch_count |-> mesh.batch_count + 1])

RECURSIVE walk_nodes(_, _, _, _, _)
\* the loop over the nodes, from node_index on
walk_nodes(m, lod, group, node_index, mesh) ==
    IF node_index >= m.node_count THEN mesh
    ELSE LET slot_idx == slot_index(m, node_index, lod, group) IN
         walk_nodes(m, lod, group, node_index + 1,
           IF ~slot_idx.ok THEN mesh
           ELSE LET slot == m.slots[slot_idx.val + 1]
                    batch_end == slot.batch_start + slot.batch_count
                IN IF batch_end > Len(m.batches) THEN mesh
                   ELSE walk_batches(m, slot.batch_start, batch_end, mesh))

\* build_render_mesh
build_render_mesh(m, lod, group) ==
    walk_nodes(m, lod, group, 0, [vertices |-> <<>>, batch_count |-> 0])

-----------------------------------------------------------------------------
(* Render fixtures: the builders of render-core's tests *)

\* nodes_with_slot_refs
nodes_with_slot_refs(slot_ids) ==
    [i \in 1..(Len(slot_ids) * 38) |->
       LET node == (i - 1) \div 38
           at == (i - 1) % 38
       IN IF at \in {8, 9} /\ slot_ids[node + 1].ok
          THEN u16_to_le_bytes(slot_ids[node + 1].val)[at - 7]
          ELSE IF at >= 8 THEN 255 ELSE 0]

\* slot
slot(batch_start, batch_count) ==
    [tri_start |-> 0, tri_count |-> 0, batch_start |-> batch_start,
     batch_count |-> batch_count,
     aabb_min |-> <<Zeros(4), Zeros(4), Zeros(4)>>,
     aabb_max |-> <<Zeros(4), Zeros(4), Zeros(4)>>,
     sphere_center |-> <<Zeros(4), Zeros(4), Zeros(4)>>,
     sphere_radius |-> Zeros(4), opaque |-> <<0, 0, 0, 0, 0>>]

\* batch
batch(index_start, index_count, base_vertex) ==
    [batch_flags |-> 0, material_index |-> 0, opaque4 |-> 0, opaque6 |-> 0,
     index_count |-> index_count, index_start |-> index_start, opaque14 |-> 0,
     base_vertex |-> base_vertex]

NodeChoices ==
    {<<Ok(0)>>, <<Ok(0), Ok(1)>>, <<Ok(1), Ok(0)>>, <<Err("None"), Ok(0)>>, <<Ok(5)>>}

RenderSlotChoices ==
    {<<slot(0, 1), slot(1, 1)>>, <<slot(0, 2), slot(2, 1)>>, <<slot(0, 3)>>}

RenderBatchChoices ==
    {batch(0, 3, 0), batch(3, 3, 0), batch(0, 6, 0), batch(0, 2, 0), batch(4, 3, 0),
     batch(0, 3, 2)}

\* four positions: (0,0,0), (1,0,0), (0,1,0), (2,3,0)
FourPositions ==
    <<<<Zeros(4), Zeros(4), Zeros(4)>>, <<<<0, 0, 128, 63>>, Zeros(4), Zeros(4)>>,
      <<Zeros(4), <<0, 0, 128, 63>>, Zeros(4)>>,
      <<<<0, 0, 0, 64>>, <<0, 0, 64, 64>>, Zeros(4)>>>>

\* the Models handed to build_render_mesh
RenderModels ==
    {[node_stride |-> 38, node_count |-> Len(nodes),
      nodes_raw |-> nodes_with_slot_refs(nodes), slots |-> slots,
      positions |-> FourPositions, normals |-> Err("None"), uv0 |-> uv0,
      indices |-> <<0, 1, 2, 2, 1, 3>>, batches |-> <<b1, b2>>,
      node_names |-> Err("None")] :
       nodes \in NodeChoices, slots \in RenderSlotChoices,
       b1 \in RenderBatchChoices, b2 \in RenderBatchChoices,
       uv0 \in {Err("None"), Ok(<<<<1024, -1024>>, <<512, 256>>>>)}}

-----------------------------------------------------------------------------
(* Specification of mesh parsing, and of mesh building over Models *)

MshIdle ==
    /\ decoder = [tree |-> <<>>, symbols |-> 0, cycle |-> <<>>]
    /\ render_mesh = [lod |-> 0, group |-> 0, res |-> Err("none")]
    /\ texm_payload = <<>>
    /\ texture = Err("unused")
    /\ mission = <<>>
    /\ scene = Err("unused")

InitMsh ==
    /\ NresOpenIdle /\ NresEditIdle /\ RsliIdle /\ MshIdle
    /\ msh_payload \in MeshPayloads
    /\ msh_model = Err("unused")

InitRenderMesh ==
    /\ NresOpenIdle /\ NresEditIdle /\ RsliIdle /\ MshIdle
    /\ msh_payload = <<>>
    /\ msh_model \in {Ok(m) : m \in RenderModels}

ParseModelPayload ==
    /\ msh_model = Err("unused")
    /\ msh_model' = parse_model_payload(msh_payload)
    /\ UNCHANGED <<decoder, msh_payload, render_mesh, texm_payload, texture, mission, scene>>
    /\ UNCHANGED <<nresOpenVars, nresEditVars, rsliVars>>

BuildRenderMesh ==
    /\ msh_model.ok
    /\ \E lg \in LodGroups :
         render_mesh' = [lod |-> lg[1], group |-> lg[2],
                         res |-> Ok(build_render_mesh(msh_model.val, lg[1], lg[2]))]
    /\ UNCHANGED <<decoder, msh_payload, msh_model, texm_payload, texture, mission, scene>>
    /\ UNCHANGED <<nresOpenVars, nresEditVars, rsliVars>>

NextMsh == ParseModelPayload \/ BuildRenderMesh

SpecMsh == InitMsh /\ [][NextMsh]_vars

NextRenderMesh == BuildRenderMesh

SpecRenderMesh == InitRenderMesh /\ [][NextRenderMesh]_vars

-----------------------------------------------------------------------------
(* Claims about mesh ranges *)

\* the bytes of the first resource of a kind in the payload, <<>> without one
resource_bytes(payload, kind) ==
    LET a == open_bytes(payload, FALSE) IN
    IF ~a.ok THEN <<>>
    ELSE LET r == read_required(a.val, kind) IN IF r.ok THEN r.val.bytes ELSE <<>>

\* the end of the batch range each complete slot record of Res2 declares
declared_batch_ends(payload) ==
    LET res2 == resource_bytes(payload, 2) IN
    {res2[140 + 68 * i + 5] + 256 * res2[140 + 68 * i + 6]
       + res2[140 + 68 * i + 7] + 256 * res2[140 + 68 * i + 8] :
         i \in 0..((Len(res2) - 140) \div 68 - 1)}

\* the end of the index range each complete batch record of Res13 declares
declared_index_ends(payload) ==
    LET res13 == resource_bytes(payload, 13) IN
    {from_le_bytes(SubSeq(res13, 20 * i + 11, 20 * i + 14))
       + res13[20 * i + 9] + 256 * res13[20 * i + 10] :
         i \in 0..(Len(res13) \div 20 - 1)}

mesh_parsed == msh_model # Err("unused") /\ msh_payload # <<>>

\* C24: after a successful parse every slot has batch_start + batch_count <=
\* number of batches and every batch has index_start + index_count <= number
\* of indices; a payload whose Res2 or Res13 records declare a range beyond
\* the batches of Res13 (20 bytes each) or the indices of Res6 (2 bytes each)
\* is rejected
C24_RangesWithinBounds ==
    mesh_parsed =>
      (/\ msh_model.ok =>
            (/\ \A i \in 1..Len(msh_model.val.slots) :
                  msh_model.val.slots[i].batch_start + msh_model.val.slots[i].batch_count
                    <= Len(msh_model.val.batches)
             /\ \A i \in 1..Len(msh_model.val.batches) :
                  msh_model.val.batches[i].index_start + msh_model.val.batches[i].index_count
                    <= Len(msh_model.val.indices))
       /\ (\E e \in declared_batch_ends(msh_payload) :
              e * 20 > Len(resource_bytes(msh_payload, 13))) => ~msh_model.ok
       /\ (\E e \in declared_index_ends(msh_payload) :
              e * 2 > Len(resource_bytes(msh_payload, 6))) => ~msh_model.ok)

\* a parsed model with a slot that ends at the last batch and a batch that
\* ends at the last index
C24_Witness ==
    /\ mesh_parsed /\ msh_model.ok
    /\ \E i \in 1..Len(msh_model.val.slots) :
         /\ msh_model.val.slots[i].batch_count > 0
         /\ msh_model.val.slots[i].batch_start + msh_model.val.slots[i].batch_count
              = Len(msh_model.val.batches)
    /\ \E i \in 1..Len(msh_model.val.batches) :
         msh_model.val.batches[i].index_start + msh_model.val.batches[i].index_count
           = Len(msh_model.val.indices)

-----------------------------------------------------------------------------
(* Claims about build_render_mesh *)

\* the batches build_render_mesh accepts, in walk order
accepted_batches(m, lod, group) ==
    Flatten([n \in 1..m.node_count |->
      LET slot_idx == slot_index(m, n - 1, lod, group) IN
      IF ~slot_idx.ok THEN <<>>
      ELSE LET s == m.slots[slot_idx.val + 1] IN
           IF s.batch_start + s.batch_count > Len(m.batches) THEN <<>>
           ELSE SelectSeq(SubSeq(m.batches, s.batch_start + 1, s.batch_start + s.batch_count),
                          LAMBDA b : /\ b.index_start + b.index_count <= Len(m.indices)
                                     /\ b.index_count >= 3)])

\* the final vertex indices of the accepted batches that are in range, in
\* walk order
walked_vertices(m, lod, group) ==
    LET acc == accepted_batches(m, lod, group) IN
    Flatten([i \in 1..Len(acc) |->
      SelectSeq([k \in 1..acc[i].index_count |->
                   acc[i].base_vertex + m.indices[acc[i].index_start + k]],
                LAMBDA f : f < Len(m.positions))])

mesh_built == msh_model.ok /\ render_mesh.res.ok

-----------------------------------------------------------------------------
(* Textures: texm *)

\* TEXM_MAGIC "Texm" and PAGE_MAGIC "Page", little-endian
TexmMagicBytes == <<84, 101, 120, 109>>

PageMagicBytes == <<80, 97, 103, 101>>

\* PixelFormat::from_raw followed by bytes_per_pixel; Err("None") for a raw
\* value that names no format
bytes_per_pixel(format_raw) ==
    IF format_raw = 0 THEN Ok(1)
    ELSE IF format_raw \in {565, 556, 4444, 88} THEN Ok(2)
    ELSE IF format_raw \in {888, 8888} THEN Ok(4)
    ELSE Err("None")

\* a page tail that accepts any number of trailing bytes
parse_page_tail_any_size(payload, core_end) ==
    IF core_end = Len(payload) THEN Ok(<<>>)
    ELSE IF Len(payload) - core_end < 8 THEN Err("InvalidPageSize")
    ELSE IF Slice(payload, core_end, core_end + 4) # PageMagicBytes
    THEN Err("InvalidPageMagic")
    ELSE Ok(<<>>)

\* parse_page_tail
parse_page_tail(payload, core_end) ==
    IF core_end = Len(payload) THEN Ok(<<>>)
    ELSE IF Len(payload) - core_end < 8 THEN Err("InvalidPageSize")
    ELSE IF Slice(payload, core_end, core_end + 4) # PageMagicBytes
    THEN Err("InvalidPageMagic")
    ELSE LET rect_count == read_u32(payload, core_end + 4).val IN
         IF 8 + rect_count * 8 # Len(payload) - core_end THEN Err("InvalidPageSize")
         ELSE Ok([i \in 1..rect_count |->
                    LET off == core_end + 8 + (i - 1) * 8 IN
                    [x |-> i16_from_le_bytes(Slice(payload, off, off + 2)),
                     w |-> i16_from_le_bytes(Slice(payload, off + 2, off + 4)),
                     y |-> i16_from_le_bytes(Slice(payload, off + 4, off + 6)),
                     h |-> i16_from_le_bytes(Slice(payload, off + 6, off + 8))]])

RECURSIVE mip_loop(_, _, _, _, _, _, _)
\* the mip loop of parse_texm with remaining levels to go: Ok([levels, offset])
mip_loop(payload, remaining, w, h, bpp, offset, levels) ==
    IF remaining = 0 THEN Ok([mip_levels |-> levels, offset |-> offset])
    ELSE LET level_size == w * h * bpp IN
         IF offset + level_size > Len(payload) THEN Err("CoreDataOutOfBounds")
         ELSE mip_loop(payload, remaining - 1,
                       IF w \div 2 > 1 THEN w \div 2 ELSE 1,
                       IF h \div 2 > 1 THEN h \div 2 ELSE 1,
                       bpp, offset + level_size,
                       Append(levels, [width |-> w, height |-> h, offset |-> offset,
                                       size |-> level_size]))

\* parse_texm
parse_texm(payload) ==
    IF Len(payload) < 32 THEN Err("HeaderTooSmall")
    ELSE IF Slice(payload, 0, 4) # TexmMagicBytes THEN Err("InvalidMagic")
    ELSE
      LET width == read_u32(payload, 4).val
          height == read_u32(payload, 8).val
          mip_count == read_u32(payload, 12).val
          format_raw == read_u32(payload, 28).val
          bpp == bytes_per_pixel(format_raw)
      IN
      IF width = 0 \/ height = 0 THEN Err("InvalidDimensions")
      ELSE IF mip_count = 0 THEN Err("InvalidMipCount")
      ELSE IF ~bpp.ok THEN Err("UnknownFormat")
      ELSE IF format_raw = 0 /\ 32 + 1024 > Len(payload) THEN Err("CoreDataOutOfBounds")
      ELSE
        LET palette == IF format_raw = 0 THEN Ok(Slice(payload, 32, 32 + 1024))
                       ELSE Err("None")
            core == mip_loop(payload, mip_count, width, height, bpp.val,
                             IF format_raw = 0 THEN 32 + 1024 ELSE 32, <<>>)
        IN
        IF ~core.ok THEN core
        ELSE LET page_rects == parse_page_tail(payload, core.val.offset) IN
             IF ~page_rects.ok THEN page_rects
             ELSE Ok([header |-> [width |-> width, height |-> height,
                                  mip_count |-> mip_count,
                                  flags4 |-> read_u32(payload, 16).val,
                                  flags5 |-> read_u32(payload, 20).val,
                                  unk6 |-> read_u32(payload, 24).val,
                                  format_raw |-> format_raw],
                      palette |-> palette,
                      mip_levels |-> core.val.mip_levels,
                      page_rects |-> page_rects.val])

-----------------------------------------------------------------------------
(* Texture payloads *)

\* the largest number of pixel bytes a payload carries
MaxMipBytes == 24

\* what follows the pixel bytes: nothing, a Page chunk of 0, 1 or 2 rects, a
\* chunk that declares one rect more or fewer than it holds, a chunk of another
\* name, half a chunk header
PageTails ==
    {<<>>,
     PageMagicBytes \o to_le_bytes(0),
     PageMagicBytes \o to_le_bytes(1) \o <<1, 0, 2, 0, 255, 255, 4, 0>>,
     PageMagicBytes \o to_le_bytes(2) \o Zeros(16),
     PageMagicBytes \o to_le_bytes(2) \o Zeros(8),
     PageMagicBytes \o to_le_bytes(0) \o Zeros(8),
     <<80, 97, 103, 69>> \o to_le_bytes(0),
     PageMagicBytes}

\* the 32-byte header
texm_header(magic, width, height, mip_count, format_raw) ==
    magic \o to_le_bytes(width) \o to_le_bytes(height) \o to_le_bytes(mip_count)
      \o to_le_bytes(1) \o to_le_bytes(2) \o to_le_bytes(3) \o to_le_bytes(format_raw)

TexmPayloads ==
    {texm_header(TexmMagicBytes, d[1], d[2], mips, format_raw) \o Zeros(pal) \o Zeros(data)
       \o tail :
         d \in {<<1, 1>>, <<2, 1>>, <<2, 2>>, <<3, 2>>, <<0, 1>>},
         mips \in 0..3, format_raw \in {0, 565, 8888, 77},
         pal \in {0, 1024}, data \in 0..MaxMipBytes, tail \in PageTails}
    \cup {Zeros(31), texm_header(PageMagicBytes, 1, 1, 1, 565) \o Zeros(2)}

-----------------------------------------------------------------------------
(* Specification of texture parsing *)

InitTexm ==
    /\ NresOpenIdle /\ NresEditIdle /\ RsliIdle
    /\ decoder = [tree |-> <<>>, symbols |-> 0, cycle |-> <<>>]
    /\ msh_payload = <<>>
    /\ msh_model = Err("unused")
    /\ render_mesh = [lod |-> 0, group |-> 0, res |-> Err("none")]
    /\ mission = <<>>
    /\ scene = Err("unused")
    /\ texm_payload \in TexmPayloads
    /\ texture = Err("unused")

ParseTexm ==
    /\ texture = Err("unused")
    /\ texture' = parse_texm(texm_payload)
    /\ UNCHANGED <<decoder, msh_payload, msh_model, render_mesh, texm_payload, mission, scene>>
    /\ UNCHANGED <<nresOpenVars, nresEditVars, rsliVars>>

NextTexm == ParseTexm

SpecTexm == InitTexm /\ [][NextTexm]_vars

-----------------------------------------------------------------------------
(* Claims about the texture size equation *)

\* 2^k for the mip levels of the payloads
pow2(k) == IF k = 0 THEN 1 ELSE IF k = 1 THEN 2 ELSE IF k = 2 THEN 4 ELSE 8

\* a dimension of mip level k (from 0): halved k times, rounded down, at least 1
level_dim(dim, k) == IF dim \div pow2(k) >= 1 THEN dim \div pow2(k) ELSE 1

RECURSIVE sum_sizes(_, _)
sum_sizes(levels, k) == IF k = 0 THEN 0 ELSE levels[k].size + sum_sizes(levels, k - 1)

\* C25: for an accepted payload, 32 + (1024 if indexed) + the sum of the mip
\* level sizes + the Page tail length (0, or 8 + 8 * rect_count) is the
\* payload length; level k has size width_k * height_k * bpp, its dimensions
\* the header's halved k times (floor), at least 1
C25_SizeEquation ==
    texture.ok =>
      LET t == texture.val
          bpp == IF t.header.format_raw = 0 THEN 1
                 ELSE IF t.header.format_raw \in {888, 8888} THEN 4 ELSE 2
          core == 32 + (IF t.header.format_raw = 0 THEN 1024 ELSE 0)
                     + sum_sizes(t.mip_levels, Len(t.mip_levels))
          tail == Len(texm_payload) - core
      IN /\ Len(t.mip_levels) = t.header.mip_count
         /\ t.palette.ok <=> t.header.format_raw = 0
         /\ \A k \in 1..Len(t.mip_levels) :
              /\ t.mip_levels[k].width = level_dim(t.header.width, k - 1)
              /\ t.mip_levels[k].height = level_dim(t.header.height, k - 1)
              /\ t.mip_levels[k].size = t.mip_levels[k].width * t.mip_levels[k].height * bpp
         /\ \/ tail = 0 /\ t.page_rects = <<>>
            \/ /\ tail = 8 + 8 * Len(t.page_rects)
               /\ Slice(texm_payload, core, core + 4) = PageMagicBytes
               /\ from_le_bytes(Slice(texm_payload, core + 4, core + 8)) = Len(t.page_rects)

\* an accepted indexed texture of three levels, the last two clamped to one
\* pixel in height, with a Page tail of one rect
C25_Witness ==
    /\ texture.ok
    /\ texture.val.palette.ok
    /\ Len(texture.val.mip_levels) = 3
    /\ texture.val.mip_levels[1].width = 3
    /\ texture.val.mip_levels[3].height = 1 /\ texture.val.mip_levels[3].width = 1
    /\ Len(texture.val.page_rects) = 1
    /\ texture.val.page_rects[1].y = -1


-----------------------------------------------------------------------------
(* Mission scenes: render-mission-demo *)

\* A mission object stands for its resource name together with what the game
\* files hold for it: whether the name ends in ".dat", the unit file and the
\* archive it leads to ("absent", "invalid" when it cannot be parsed, "valid"),
\* whether the archive has the mesh entry, and what loading the model gives
\* ("error", "empty" for a mesh without indices, "mesh")
MissionObject(is_dat, dat_file, archive_file, has_mesh_entry, model_loads) ==
    [is_dat |-> is_dat, dat_file |-> dat_file, archive_file |-> archive_file,
     has_mesh_entry |-> has_mesh_entry, model_loads |-> model_loads]

\* archive_has_mesh_entry: Archive::open_path(archive_path)?, then the search
archive_has_mesh_entry(archive_file, object) ==
    IF archive_file = "invalid" THEN Err("Nres") ELSE Ok(object.has_mesh_entry)

\* resolve_archive_model; the prototype is the object's own model
resolve_archive_model(archive_file, object) ==
    IF archive_file = "absent" THEN Ok(Err("None"))
    ELSE LET has == archive_has_mesh_entry(archive_file, object) IN
         IF ~has.ok THEN has
         ELSE IF ~has.val THEN Ok(Err("None"))
         ELSE Ok(Ok(object))

\* resolve_object_prototype
resolve_object_prototype(objects_rlb, object) ==
    IF object.is_dat
    THEN IF object.dat_file = "absent" THEN Ok(Err("None"))
         ELSE IF object.dat_file = "invalid" THEN Err("UnitDat")
         ELSE IF object.archive_file = "absent" THEN Ok(Err("None"))
         ELSE resolve_archive_model(object.archive_file, object)
    ELSE IF objects_rlb = "absent" THEN Ok(Err("None"))
         ELSE resolve_archive_model(objects_rlb, object)

RECURSIVE resolve_objects(_, _, _)
\* the loop over mission.objects: st = [grouped, cache, skipped]; grouped is
\* the sequence of prototypes, one per instance
resolve_objects(m, i, st) ==
    IF i > Len(m.objects) THEN Ok(st)
    ELSE LET object == m.objects[i]
             proto == IF object \in DOMAIN st.cache THEN Ok(st.cache[object])
                      ELSE resolve_object_prototype(m.objects_rlb, object)
         IN IF ~proto.ok THEN proto
            ELSE resolve_objects(m, i + 1,
                   [grouped |-> IF proto.val.ok THEN Append(st.grouped, proto.val.val)
                                ELSE st.grouped,
                    cache |-> [o \in DOMAIN st.cache \cup {object} |->
                                 IF o = object THEN proto.val ELSE st.cache[o]],
                    skipped |-> IF proto.val.ok THEN st.skipped ELSE st.skipped + 1])

\* the number of instances of a prototype
instances(grouped, key) == Cardinality({i \in 1..Len(grouped) : grouped[i] = key})

\* load_scene_with_options after the mission and the terrain were parsed
load_scene_with_options(m) ==
    LET resolved == resolve_objects(m, 1, [grouped |-> <<>>, cache |-> <<>>, skipped |-> 0])
    IN
    IF ~resolved.ok THEN resolved
    ELSE LET grouped == resolved.val.grouped
             keys == {grouped[i] : i \in 1..Len(grouped)}
             dropped == {i \in 1..Len(grouped) : grouped[i].model_loads # "mesh"}
         IN Ok([models |-> {[model |-> key, instances |-> instances(grouped, key)] :
                              key \in {k \in keys : k.model_loads = "mesh"}},
                skipped_objects |-> resolved.val.skipped + Cardinality(dropped)])

-----------------------------------------------------------------------------
(* Missions *)

\* the largest number of objects in a mission
MaxObjects == 3

FileStates == {"absent", "invalid", "valid"}

\* the objects of a mission: for each way the lookup can end, one resource name
ObjectKinds ==
    {MissionObject(TRUE, "absent", "absent", FALSE, "error"),
     MissionObject(TRUE, "invalid", "absent", FALSE, "error"),
     MissionObject(TRUE, "valid", "absent", FALSE, "error"),
     MissionObject(TRUE, "valid", "invalid", FALSE, "error"),
     MissionObject(TRUE, "valid", "valid", FALSE, "error")}
    \cup {MissionObject(d, "valid", "valid", TRUE, l) :
            d \in BOOLEAN, l \in {"error", "empty", "mesh"}}
    \cup {MissionObject(FALSE, "valid", "valid", FALSE, "error")}

RECURSIVE ObjectLists(_)
ObjectLists(n) ==
    IF n = 0 THEN {<<>>}
    ELSE ObjectLists(n - 1)
           \cup {Append(l, o) : l \in {x \in ObjectLists(n - 1) : Len(x) = n - 1},
                                o \in ObjectKinds}

Missions ==
    {[objects_rlb |-> rlb, objects |-> objects] :
       rlb \in FileStates, objects \in ObjectLists(MaxObjects)}

-----------------------------------------------------------------------------
(* Specification of scene loading *)

InitScene ==
    /\ NresOpenIdle /\ NresEditIdle /\ RsliIdle
    /\ decoder = [tree |-> <<>>, symbols |-> 0, cycle |-> <<>>]
    /\ msh_payload = <<>>
    /\ msh_model = Err("unused")
    /\ render_mesh = [lod |-> 0, group |-> 0, res |-> Err("none")]
    /\ texm_payload = <<>>
    /\ texture = Err("unused")
    /\ mission \in Missions
    /\ scene = Err("unused")

LoadScene ==
    /\ scene = Err("unused")
    /\ scene' = load_scene_with_options(mission)
    /\ UNCHANGED <<decoder, msh_payload, msh_model, render_mesh, texm_payload, texture, mission>>
    /\ UNCHANGED <<nresOpenVars, nresEditVars, rsliVars>>

NextScene == LoadScene

SpecScene == InitScene /\ [][NextScene]_vars

-----------------------------------------------------------------------------
(* Claims about objects that cannot be loaded *)

\* C27: once the mission and the terrain are parsed, no object makes the load
\* fail: the load returns a scene, and every object whose unit file, archive,
\* prototype or mesh cannot be found or parsed is counted in skipped_objects
C27_ObjectsNeverAbortLoad ==
    (scene # Err("unused")) =>
      /\ scene.ok
      /\ scene.val.skipped_objects =
           Cardinality({i \in 1..Len(mission.objects) :
              LET o == mission.objects[i] IN
              ~(/\ o.has_mesh_entry /\ o.model_loads = "mesh"
                /\ IF o.is_dat THEN o.dat_file = "valid" /\ o.archive_file = "valid"
                   ELSE mission.objects_rlb = "valid")})


-----------------------------------------------------------------------------
(* Damaged inputs for the three parsers *)

\* every proper prefix of an image
truncations(image) == {SubSeq(image, 1, k) : k \in 0..(Len(image) - 1)}

\* the values a byte at position p (from 1) is replaced with. The model's
\* integers have 32 bits: a u32 whose top byte is 128 or more, and an NRes
\* entry count of 2^25 or more (times 64), are left out
damage_values(p) ==
    IF p = 12 THEN {0, 1, 128}
    ELSE {0, 1, 127} \cup (IF p % 2 = 1 THEN {255} ELSE {})

\* an image with one byte among the positions replaced
substitutions(image, positions) ==
    UNION {{[image EXCEPT ![p] = b] : b \in damage_values(p)} : p \in positions}

NresBase == build_nres_bytes(<<EntryZulu, EntryAlpha>>)

MeshBase == build_nres_bytes(synthetic_entries(38, <<<<0, 1>>>>, <<<<0, 3>>>>, <<0, 1, 2>>))

RsliBase ==
    build_rsli_bytes(<<SyntheticRsliEntry(<<66>>, 32, LongPayload),
                       SyntheticRsliEntry(<<65>>, 0, <<65>>)>>, BuildOptions(FALSE))

\* the header of an RsLi image without the two bytes of the table key
RsliHeaderPositions == (1..32) \ {21, 22}

DamagedInputs ==
    {NresBase, MeshBase, RsliBase}
      \cup truncations(NresBase) \cup substitutions(NresBase, 1..Len(NresBase))
      \cup truncations(MeshBase) \cup substitutions(MeshBase, 1..Len(MeshBase))
      \cup truncations(RsliBase) \cup substitutions(RsliBase, RsliHeaderPositions)

-----------------------------------------------------------------------------
(* Specification of the parsers over damaged inputs *)

InitParsers ==
    /\ NresEditIdle
    /\ \E bytes \in DamagedInputs :
         /\ input = bytes
         /\ rsli_file = bytes
         /\ msh_payload = bytes
    /\ archive = NoArchive
    /\ open_res = "unopened"
    /\ last_read = NoRead
    /\ last_find = [done |-> FALSE, name |-> <<>>, res |-> Err("none")]
    /\ flate = NoInflate
    /\ options \in {OpenOptions(TRUE, TRUE), OpenOptions(FALSE, FALSE)}
    /\ library = Err("unopened")
    /\ packed_res = NoResource
    /\ call = NoCall
    /\ MshIdle
    /\ msh_model = Err("unused")

NextParsers == OpenBytes \/ Open \/ ParseModelPayload

SpecParsers == InitParsers /\ [][NextParsers]_vars

-----------------------------------------------------------------------------
(* Claims about parsers on arbitrary bytes *)

\* the resources of a parsed model were read inside their byte strings
model_within(m, payload) ==
    /\ m.node_count * m.node_stride = Len(m.nodes_raw)
    /\ 140 + 68 * Len(m.slots) = Len(resource_bytes(payload, 2))
    /\ 12 * Len(m.positions) = Len(resource_bytes(payload, 3))
    /\ 2 * Len(m.indices) = Len(resource_bytes(payload, 6))
    /\ 20 * Len(m.batches) = Len(resource_bytes(payload, 13))

\* C28: on any bytes, NRes open, RsLi open and the mesh parse end with a
\* parsed value or an error; what they return lies inside the input: each NRes
\* entry's data between the header and the directory, each RsLi entry's packed
\* bytes before the end of the file, each mesh resource read to its length
C28_ParsersStayInsideInput ==
    /\ open_res \notin {"unopened", "unused"} =>
         \/ open_res # "ok" /\ archive = NoArchive
         \/ /\ open_res = "ok"
            /\ \A i \in 1..Len(archive.entries) :
                 /\ archive.entries[i].meta.data_offset + archive.entries[i].meta.data_size
                      <= Len(input)
                 /\ archive.raw_mode \/ archive.entries[i].meta.data_offset >= HeaderLen
    /\ library \notin {Err("unopened"), Err("unused")} =>
         \/ ~library.ok
         \/ /\ library.ok
            /\ 32 + 32 * Len(library.val.entries) <= Len(rsli_file)
            /\ \A i \in 1..Len(library.val.entries) :
                 library.val.entries[i].effective_offset
                   + library.val.entries[i].packed_size_available <= Len(rsli_file)
    /\ (msh_model # Err("unused") /\ msh_model.ok) => model_within(msh_model.val, msh_payload)

\* a damaged mesh payload that opens as an NRes archive, fails to parse as a
\* mesh, and is no RsLi library
C28_Witness ==
    /\ open_res = "ok" /\ ~archive.raw_mode
    /\ input # MeshBase /\ Len(input) = Len(MeshBase)
    /\ msh_model # Err("unused") /\ ~msh_model.ok /\ msh_model.err # "Nres"
    /\ library = Err("InvalidMagic")

=============================================================================
